---- MODULE Spec2Model ----
(***************************************************************************)
(* GREMS: GPU-accelerated FDTD solver.  State-machine model of the         *)
(* simulation driver and initialization (src/main.rs), of the FDTD         *)
(* construction, half-steps and material rasterizer (src/fdtd/mod.rs) and  *)
(* of the CPML region dispatch (src/fdtd/pml.rs).                          *)
(***************************************************************************)
EXTENDS Integers, Sequences, FiniteSets, TLC

(***************************************************************************)
(* Bounds of the exploration.                                              *)
(***************************************************************************)
MaxStep == 3
MaxLen == 2
MaxCells == 2
MaxSim == 2

(***************************************************************************)
(* Program constants.                                                      *)
(***************************************************************************)
PMLWorkgroup == 8

VARIABLES
    \* ---- driver state (main.rs) ----
    temporal_step,      \* settings.temporal_step, in time units
    tau,                \* tick period, in clock units
    pause_at,           \* settings.pause_at (sorted at load, drained by ticks)
    exports,            \* settings.exports  (sorted at load, drained by ticks)
    magnetic_sources,   \* Vec<Source> of the H kind, declaration order
    electric_sources,   \* Vec<Source> of the E kind, declaration order
    step_counter,
    paused,
    elapsed,
    encoder,            \* commands recorded by the most recent executed tick
    queue,              \* command buffers submitted to the GPU queue, in order
    consumed,           \* schedule entries removed so far, in removal order
    cfg_pause_at,       \* pause_at as written in the preset (declaration order)
    cfg_exports,        \* exports  as written in the preset (declaration order)
    cfg_sources,        \* sources  as written in the preset (declaration order)
    last,               \* what the event loop did last
    files,              \* DDS files written so far: [id, step, field, header, rows]
    stderr,             \* lines printed with eprintln!, in order: [id, text]
    map_errors,         \* ids of the exports whose buffer map-read failed
    copy_buffers,       \* export buffers created so far: [id, bytes_per_row, alignments]
    \* ---- FDTD / CPML state (fdtd/mod.rs, fdtd/pml.rs) ----
    boundary,           \* FDTD.boundary: [type, cells]
    pml,                \* FDTD.pml: Option<PMLBoundary>
    grid_dimension,     \* FDTD.grid_dimension
    workgroup_dispatch, \* FDTD.workgroup_dispatch
    cpass,              \* dispatches recorded in the most recent compute pass
    \* ---- initialization state (main.rs 446-805, fdtd/mod.rs 85-837) ----
    pc,                 \* position of main: "load", "checked", "run", "error", "panic"
    init_error,         \* message of the anyhow error main returned with, or ""
    no_visual,          \* Options.no_visual (--no-visual)
    panic_message,      \* message main panicked with, or ""
    domain,             \* settings.domain, [[f32; 2]; 3] as <<<<min, max>>, ..>>
    spatial_step,       \* settings.spatial_step (dx), in the length unit of domain
    shift_vector,       \* FDTD.shift_vector, in halves of the length unit
    field_texture_size, \* extents of electric_field_texture[0..3] and magnetic_field_texture[0..3]
    constants_map_size, \* extents of the electric and magnetic constants maps
    importer,           \* the Importer FDTD::new built: [grid_dimension, shift_vector, extra_extent]
    \* ---- material rasterizer (fdtd/mod.rs 1154-1761) ----
    models,             \* the meshes FDTD::new loads, in list order: [triangles, constants]
    loaded,             \* number of models load_gltf has processed
    electric_constants, \* Importer.electric_constants: grid cell -> (ec2, ec3)
    magnetic_constants, \* Importer.magnetic_constants: grid cell -> (hc2, hc3)
    flag_map,           \* flag_map of the primitive in work or last done: interior cell -> u8
    accumulator,        \* accumulator of that primitive: interior cell -> u8
    ec_map,             \* electric map into_constants_map uploads, <<>> before
    hc_map,             \* magnetic map into_constants_map uploads, <<>> before
    pml_electric_views, \* six electric decay textures [width, height, texel], <<>> if none
    pml_magnetic_views, \* six magnetic decay textures, <<>> if none
    raster_pc,          \* "idle", "voxelize", "sweep", "mapped"
    tasks,              \* parallel tasks of the running par_iter not yet executed
    sweep_z,            \* z of the sweep layer in work
    locks,              \* mutexes held: <<array name, cell>> -> holding task
    \* ---- field textures (fdtd/mod.rs 108-141) ----
    electric_field_texture, \* <<Ex, Ey, Ez>>, each grid cell -> value; <<>> before FDTD::new
    magnetic_field_texture, \* <<Hx, Hy, Hz>>
    \* ---- slice view (fdtd/mod.rs 75-78) ----
    slice_position,     \* FDTD.slice_position as a count of 1/ViewDen, or Untracked
    slice_mode,         \* FDTD.slice_mode: "X", "Y", "Z"
    field_view_mode,    \* FDTD.field_view_mode: "E", "H"
    scaling_factor      \* FDTD.scaling_factor: [mantissa, exponent] of base 10, or Untracked

driverVars == <<temporal_step, tau, pause_at, exports, magnetic_sources,
                electric_sources, step_counter, paused, elapsed, encoder,
                queue, consumed, cfg_pause_at, cfg_exports, cfg_sources, last,
                files, stderr, map_errors, copy_buffers>>

fdtdVars == <<boundary, pml, grid_dimension, workgroup_dispatch, cpass>>

setupVars == <<pc, init_error, domain, spatial_step, shift_vector,
               field_texture_size, constants_map_size, importer, no_visual,
               panic_message>>

rasterVars == <<models, loaded, electric_constants, magnetic_constants,
                flag_map, accumulator, ec_map, hc_map, pml_electric_views,
                pml_magnetic_views, raster_pc, tasks, sweep_z, locks>>

fieldVars == <<electric_field_texture, magnetic_field_texture>>

viewVars == <<slice_position, slice_mode, field_view_mode, scaling_factor>>

vars == <<driverVars, fdtdVars, setupVars, rasterVars, fieldVars, viewVars>>

(***************************************************************************)
(* Generic helpers.                                                        *)
(***************************************************************************)
\* (a as f32 / b as f32).ceil() as u32 for small non-negative integers
CeilDiv(a, b) == (a + b - 1) \div b

Min2(a, b) == IF a <= b THEN a ELSE b

Max2(a, b) == IF a >= b THEN a ELSE b

SeqsUpTo(S, n) == UNION {[1..k -> S] : k \in 0..n}

\* the cells lo[a] <= c[a] < lo[a] + ext[a] of a 3D array
Box(lo, ext) ==
    {<<x, y, z>> : x \in lo[1]..(lo[1] + ext[1] - 1),
                   y \in lo[2]..(lo[2] + ext[2] - 1),
                   z \in lo[3]..(lo[3] + ext[3] - 1)}

RECURSIVE Concat(_)
Concat(ss) == IF ss = <<>> THEN <<>> ELSE Head(ss) \o Concat(Tail(ss))

(***************************************************************************)
(* TimingSettings and its resolution to a step (main.rs 72-77, 453-461).   *)
(* A timing is [kind |-> "step" | "time", value |-> Int, id |-> Nat],      *)
(* id being the position of the entry in the preset.                       *)
(***************************************************************************)
\* (num / den).round() as u32 for den > 0: f32::round rounds half away from
\* zero and `as u32` saturates, so every negative quotient gives 0.  The
\* upper saturation at 2^32 - 1 is out of reach of the values explored.
RoundToU32(num, den) ==
    IF num <= 0 THEN 0
    ELSE (2 * num + den) \div (2 * den)

ResolveStep(timing, dt) ==
    IF timing.kind = "step" THEN timing.value
    ELSE RoundToU32(timing.value, dt)

\* Vec::sort_by_key is a stable sort: insertion after the last key <= own key
RECURSIVE InsertByKey(_, _, _)
InsertByKey(sorted, e, dt) ==
    IF sorted = <<>> THEN <<e>>
    ELSE IF ResolveStep(Head(sorted), dt) <= ResolveStep(e, dt)
         THEN <<Head(sorted)>> \o InsertByKey(Tail(sorted), e, dt)
         ELSE <<e>> \o sorted

RECURSIVE SortByKey(_, _)
SortByKey(list, dt) ==
    IF list = <<>> THEN <<>>
    ELSE InsertByKey(SortByKey(SubSeq(list, 1, Len(list) - 1), dt),
                     list[Len(list)], dt)

(***************************************************************************)
(* Source lists (main.rs 536-757).  A preset source is                     *)
(* [mode |-> "texture" | "volume", e |-> BOOLEAN, h |-> BOOLEAN, id].      *)
(* A volume source has exactly one of e, h (its `field`); a texture source *)
(* is pushed to the electric list if any of ex/ey/ez is present and to the *)
(* magnetic list if any of hx/hy/hz is present.                            *)
(***************************************************************************)
ElectricSourcesOf(sources) == SelectSeq(sources, LAMBDA s : s.e)

MagneticSourcesOf(sources) == SelectSeq(sources, LAMBDA s : s.h)

(***************************************************************************)
(* The commands one tick records into its encoder (main.rs 918-1080).      *)
(* n is the value of step_counter read by the envelope/carrier             *)
(* computation, i.e. the counter before the increment of line 1082.        *)
(***************************************************************************)
ExciteCommand(source, fieldName, n) ==
    [op  |-> IF source.mode = "texture"
             THEN "excite_" \o fieldName \o "_field_mode"
             ELSE "excite_" \o fieldName \o "_field_volume",
     src |-> source.id,
     n   |-> n]

ExciteCommandsPhantom(sources, fieldName, n) ==
    <<[op |-> "excite_" \o fieldName \o "_field_volume", src |-> 0, n |-> n]>>
    \o [i \in 1..Len(sources) |-> ExciteCommand(sources[i], fieldName, n)]

ExciteCommands(sources, fieldName, n) ==
    [i \in 1..Len(sources) |-> ExciteCommand(sources[i], fieldName, n)]

TickCommandsSwapped(n, mags, elecs) ==
    <<[op |-> "update_magnetic_field", src |-> 0, n |-> n]>>
    \o <<[op |-> "update_electric_field", src |-> 0, n |-> n]>>
    \o ExciteCommands(mags, "magnetic", n)
    \o ExciteCommands(elecs, "electric", n)

TickCommands(n, mags, elecs) ==
    <<[op |-> "update_magnetic_field", src |-> 0, n |-> n]>>
    \o ExciteCommands(mags, "magnetic", n)
    \o <<[op |-> "update_electric_field", src |-> 0, n |-> n]>>
    \o ExciteCommands(elecs, "electric", n)

(***************************************************************************)
(* The schedule drain loops (main.rs 1084-1221): remove the head while it  *)
(* resolves to exactly the current step counter.                           *)
(***************************************************************************)
RECURSIVE DrainCount(_, _, _)
DrainCount(list, n, dt) ==
    IF list # <<>> /\ ResolveStep(Head(list), dt) = n
    THEN 1 + DrainCount(Tail(list), n, dt)
    ELSE 0

Drop(list, k) == SubSeq(list, k + 1, Len(list))

ConsumedLog(list, k, sched, n) ==
    [i \in 1..k |-> [sched |-> sched, id |-> list[i].id, at |-> n]]

\* command buffers the export loop submits: one per drained D3 export
ExportSubmissions(list, k, n) ==
    LET d3 == SelectSeq(SubSeq(list, 1, k), LAMBDA e : e.dimension = "D3")
    IN  [i \in 1..Len(d3) |-> [kind |-> "export", step |-> n, id |-> d3[i].id]]

TickSubmission(n) == <<[kind |-> "tick", step |-> n, id |-> 0]>>

SurfaceResults == {"Ok", "Timeout", "Outdated", "Lost"}

(***************************************************************************)
(* WindowEvent::RedrawRequested (main.rs 902-1287).  d is now.elapsed(),   *)
(* surf the result of surface.get_current_texture().                       *)
(***************************************************************************)
Return(e, what) ==
    /\ elapsed' = e
    /\ last' = what
    /\ UNCHANGED <<temporal_step, tau, pause_at, exports, magnetic_sources,
                   electric_sources, step_counter, paused, encoder, queue,
                   consumed, cfg_pause_at, cfg_exports, cfg_sources, files,
                   stderr, map_errors, copy_buffers>>

\* the 3D export of one schedule entry (main.rs 1120-1219); g is
\* fdtd.get_dimension().  Sizes of u32 type are kept below 2^32 by counting
\* the buffer in units of the row alignment.
bytes_per_pixel == 4

COPY_BYTES_PER_ROW_ALIGNMENT == 256

BufferSizeLimit == 16777216

unpadded_bytes_per_row(g) == g[1] * bytes_per_pixel

padded_bytes_per_row_padding(g) ==
    (COPY_BYTES_PER_ROW_ALIGNMENT
        - (unpadded_bytes_per_row(g) % COPY_BYTES_PER_ROW_ALIGNMENT))
    % COPY_BYTES_PER_ROW_ALIGNMENT

padded_bytes_per_row(g) == unpadded_bytes_per_row(g) + padded_bytes_per_row_padding(g)

\* padded_bytes_per_row * dimension[1] * dimension[2], in units of the row
\* alignment, before it is reduced to a u32
CopyBufferAlignments(g) ==
    (padded_bytes_per_row(g) \div COPY_BYTES_PER_ROW_ALIGNMENT) * g[2] * g[3]

\* the u32 product overflows: 2^32 bytes are BufferSizeLimit alignments
CopySizeOverflows(g) == CopyBufferAlignments(g) >= BufferSizeLimit

\* device.create_buffer: the size as the wrapping u32 product leaves it
CopyBuffer(export, g) ==
    [id            |-> export.id,
     bytes_per_row |-> padded_bytes_per_row(g),
     alignments    |-> CopyBufferAlignments(g) % BufferSizeLimit]

\* the file of a mapped buffer: data.chunks(padded) with each row cut to the
\* unpadded length, under a DDS header of the grid's dimensions
DdsFile(export, g, n) ==
    [id        |-> export.id,
     step      |-> n,
     field     |-> export.field,
     format    |-> "R32_Float",
     resource  |-> "Texture3D",
     width     |-> g[1],
     height    |-> g[2],
     depth     |-> g[3],
     row_bytes |-> unpadded_bytes_per_row(g),
     rows      |-> g[2] * g[3]]

D3Of(list) == SelectSeq(list, LAMBDA e : e.dimension = "D3")

D2Of(list) == SelectSeq(list, LAMBDA e : e.dimension = "D2")

\* what the drained exports `list` leave behind when no size overflows;
\* failed holds the ids whose map_async callback received an error
ExportFiles(list, g, n, failed) ==
    LET ok == SelectSeq(D3Of(list), LAMBDA e : e.id \notin failed)
    IN  [i \in 1..Len(ok) |-> DdsFile(ok[i], g, n)]

ExportBuffers(list, g) ==
    [i \in 1..Len(D3Of(list)) |-> CopyBuffer(D3Of(list)[i], g)]

ExportMessages(list) ==
    [i \in 1..Len(D2Of(list)) |->
        [id |-> D2Of(list)[i].id, text |-> "2D Slice Not Yet Implemented"]]

ExportMapErrors(list, failed) ==
    {D3Of(list)[i].id : i \in 1..Len(D3Of(list))} \cap failed

\* number of drained entries ahead of the first 3D export
BeforeFirstD3(list) ==
    IF D3Of(list) = <<>> THEN Len(list)
    ELSE (CHOOSE i \in 1..Len(list) :
              /\ list[i].dimension = "D3"
              /\ \A j \in 1..(i - 1) : list[j].dimension # "D3") - 1

Builds == {"debug", "release"}

\* gpu is what the device does in this handler: the ids whose map-read
\* fails, and the build (overflow checks on or off)
Tick(e, surf, gpu) ==
    LET n  == step_counter + 1
        kp == DrainCount(pause_at, n, temporal_step)
        ke == DrainCount(exports, n, temporal_step)
        drained == SubSeq(exports, 1, ke)
        g  == grid_dimension
    IN  IF CopySizeOverflows(g) /\ D3Of(drained) # <<>>
        THEN \* debug: the u32 product panics; release: the buffer has the
             \* wrapped size and the copy into it is a validation error
             LET kx == BeforeFirstD3(drained)
                 done == SubSeq(drained, 1, kx)
             IN  /\ encoder' = TickCommands(step_counter, magnetic_sources,
                                            electric_sources)
                 /\ step_counter' = n
                 /\ pause_at' = Drop(pause_at, kp)
                 /\ paused' = (kp > 0)
                 /\ exports' = Drop(exports, kx)
                 /\ elapsed' = IF kx > 0 THEN 0 ELSE e
                 /\ consumed' = consumed \o ConsumedLog(pause_at, kp, "pause", n)
                                         \o ConsumedLog(exports, kx, "export", n)
                 /\ stderr' = stderr \o ExportMessages(done)
                 /\ copy_buffers' =
                        IF gpu.build = "release"
                        THEN Append(copy_buffers, CopyBuffer(drained[kx + 1], g))
                        ELSE copy_buffers
                 /\ last' = "panic"
                 /\ UNCHANGED <<queue, files, map_errors>>
                 /\ UNCHANGED <<temporal_step, tau, magnetic_sources,
                                electric_sources, cfg_pause_at, cfg_exports,
                                cfg_sources>>
        ELSE /\ encoder' = TickCommands(step_counter, magnetic_sources,
                                        electric_sources)
             /\ step_counter' = n
             /\ pause_at' = Drop(pause_at, kp)
             /\ paused' = (kp > 0)
             /\ exports' = Drop(exports, ke)
             /\ elapsed' = IF ke > 0 THEN 0 ELSE e
             /\ consumed' = consumed \o ConsumedLog(pause_at, kp, "pause", n)
                                     \o ConsumedLog(exports, ke, "export", n)
             /\ queue' = queue \o ExportSubmissions(exports, ke, n)
                               \o (IF surf = "Ok" THEN TickSubmission(n) ELSE <<>>)
             /\ files' = files \o ExportFiles(drained, g, n, gpu.failed)
             /\ stderr' = stderr \o ExportMessages(drained)
             /\ map_errors' = map_errors \cup ExportMapErrors(drained, gpu.failed)
             /\ copy_buffers' = copy_buffers \o ExportBuffers(drained, g)
             /\ last' = IF surf = "Ok" THEN "tick"
                        ELSE IF surf = "Timeout" THEN "skip" ELSE "reconfigure"
             /\ UNCHANGED <<temporal_step, tau, magnetic_sources,
                            electric_sources, cfg_pause_at, cfg_exports,
                            cfg_sources>>

RedrawRequestedUngated(d, surf, gpu) ==
    /\ step_counter < MaxStep
    /\ last # "panic"
    /\ LET e1 == elapsed + d
       IN  IF e1 < tau THEN Return(e1, "early")
           ELSE Tick(e1 % tau, surf, gpu)
    /\ UNCHANGED <<fdtdVars, setupVars, rasterVars, fieldVars, viewVars>>

RedrawRequested(d, surf, gpu) ==
    /\ step_counter < MaxStep
    /\ last # "panic"
    /\ LET e1 == elapsed + d
       IN  IF e1 < tau THEN Return(e1, "early")
           ELSE IF paused THEN Return(e1 % tau, "halted")
           ELSE Tick(e1 % tau, surf, gpu)
    /\ UNCHANGED <<fdtdVars, setupVars, rasterVars, fieldVars, viewVars>>

(***************************************************************************)
(* KeyboardInput Ctrl+Space (main.rs 850-856): toggle pause.               *)
(***************************************************************************)
TogglePause ==
    /\ last # "panic"
    /\ paused' = ~paused
    /\ elapsed' = IF paused THEN 0 ELSE elapsed
    /\ last' = IF paused THEN "resume" ELSE "manual_pause"
    /\ UNCHANGED <<temporal_step, tau, pause_at, exports, magnetic_sources,
                   electric_sources, step_counter, encoder, queue, consumed,
                   cfg_pause_at, cfg_exports, cfg_sources, files, stderr,
                   map_errors, copy_buffers>>
    /\ UNCHANGED <<fdtdVars, setupVars, rasterVars, fieldVars, viewVars>>

(***************************************************************************)
(* BoundaryCondition (fdtd/mod.rs 22-44).                                  *)
(***************************************************************************)
PEC == [type |-> "PEC", cells |-> 0]

PMC == [type |-> "PMC", cells |-> 0]

PML(c) == [type |-> "PML", cells |-> c]

get_extra_grid_extent(b) == IF b.type = "PML" THEN b.cells * 2 ELSE 0

use_pmc(b) == IF b.type = "PMC" THEN 1 ELSE 0

NoPML == [some |-> FALSE, cells |-> 0, simulation_dimension |-> <<0, 0, 0>>]

(***************************************************************************)
(* Extents of the psi textures of each region shape (fdtd/pml.rs 15-28,    *)
(* 146-159, 237-250, 328-341, 418-431, 528-541, 638-651).  p is the        *)
(* PMLBoundary; arrays [u32; 3] are tuples indexed from 1.                 *)
(***************************************************************************)
Shapes == <<"corner", "surface_x", "surface_y", "surface_z",
            "edge_x", "edge_y", "edge_z">>

RegionCount(shape) ==
    CASE shape = "corner" -> 8
      [] shape \in {"surface_x", "surface_y", "surface_z"} -> 2
      [] shape \in {"edge_x", "edge_y", "edge_z"} -> 4

PsiTextureExtent(shape, p) ==
    LET c == p.cells
        sd == p.simulation_dimension
    IN  CASE shape = "corner"    -> <<c, c, c>>
          [] shape = "surface_x" -> <<c, sd[2], sd[3]>>
          [] shape = "surface_y" -> <<sd[1], c, sd[3]>>
          [] shape = "surface_z" -> <<sd[1], sd[2], c>>
          [] shape = "edge_x"    -> <<sd[1], c, c>>
          [] shape = "edge_y"    -> <<c, sd[2], c>>
          [] shape = "edge_z"    -> <<c, c, sd[3]>>

(***************************************************************************)
(* Offsets pushed to the region kernels (fdtd/pml.rs 1850-2383): the       *)
(* `match idx` tables of update_electric_field, repeated verbatim in       *)
(* update_magnetic_field.                                                  *)
(***************************************************************************)
CornerOffsetSlip(idx, p) ==
    LET c == p.cells
        sd == p.simulation_dimension
    IN  CASE idx = 0 -> <<0, 0, 0>>
          [] idx = 1 -> <<c + sd[1], 0, 0>>
          [] idx = 2 -> <<c + sd[1], c + sd[1], 0>>
          [] idx = 3 -> <<0, c + sd[2], 0>>
          [] idx = 4 -> <<0, 0, c + sd[3]>>
          [] idx = 5 -> <<c + sd[1], 0, c + sd[3]>>
          [] idx = 6 -> <<c + sd[1], c + sd[2], c + sd[3]>>
          [] idx = 7 -> <<0, c + sd[2], c + sd[3]>>

CornerOffset(idx, p) ==
    LET c == p.cells
        sd == p.simulation_dimension
    IN  CASE idx = 0 -> <<0, 0, 0>>
          [] idx = 1 -> <<c + sd[1], 0, 0>>
          [] idx = 2 -> <<c + sd[1], c + sd[2], 0>>
          [] idx = 3 -> <<0, c + sd[2], 0>>
          [] idx = 4 -> <<0, 0, c + sd[3]>>
          [] idx = 5 -> <<c + sd[1], 0, c + sd[3]>>
          [] idx = 6 -> <<c + sd[1], c + sd[2], c + sd[3]>>
          [] idx = 7 -> <<0, c + sd[2], c + sd[3]>>

SurfaceXOffset(idx, p) ==
    LET c == p.cells
        sd == p.simulation_dimension
    IN  CASE idx = 0 -> <<0, c, c>>
          [] idx = 1 -> <<c + sd[1], c, c>>

SurfaceYOffset(idx, p) ==
    LET c == p.cells
        sd == p.simulation_dimension
    IN  CASE idx = 0 -> <<c, 0, c>>
          [] idx = 1 -> <<c, c + sd[2], c>>

SurfaceZOffset(idx, p) ==
    LET c == p.cells
        sd == p.simulation_dimension
    IN  CASE idx = 0 -> <<c, c, 0>>
          [] idx = 1 -> <<c, c, c + sd[3]>>

EdgeXOffset(idx, p) ==
    LET c == p.cells
        sd == p.simulation_dimension
    IN  CASE idx = 0 -> <<c, 0, 0>>
          [] idx = 1 -> <<c, 0, c + sd[3]>>
          [] idx = 2 -> <<c, c + sd[2], c + sd[3]>>
          [] idx = 3 -> <<c, c + sd[2], 0>>

EdgeYOffset(idx, p) ==
    LET c == p.cells
        sd == p.simulation_dimension
    IN  CASE idx = 0 -> <<0, c, 0>>
          [] idx = 1 -> <<c + sd[1], c, 0>>
          [] idx = 2 -> <<c + sd[1], c, c + sd[3]>>
          [] idx = 3 -> <<0, c, c + sd[3]>>

EdgeZOffset(idx, p) ==
    LET c == p.cells
        sd == p.simulation_dimension
    IN  CASE idx = 0 -> <<0, 0, c>>
          [] idx = 1 -> <<c + sd[1], 0, c>>
          [] idx = 2 -> <<c + sd[1], c + sd[2], c>>
          [] idx = 3 -> <<0, c + sd[2], c>>

RegionOffset(shape, idx, p) ==
    CASE shape = "corner"    -> CornerOffset(idx, p)
      [] shape = "surface_x" -> SurfaceXOffset(idx, p)
      [] shape = "surface_y" -> SurfaceYOffset(idx, p)
      [] shape = "surface_z" -> SurfaceZOffset(idx, p)
      [] shape = "edge_x"    -> EdgeXOffset(idx, p)
      [] shape = "edge_y"    -> EdgeYOffset(idx, p)
      [] shape = "edge_z"    -> EdgeZOffset(idx, p)

\* the arguments of dispatch_workgroups of each region shape
RegionWorkgroupsConfigured(shape, p) ==
    [a \in 1..3 |-> CeilDiv(PsiTextureExtent(shape, p)[a], workgroup_dispatch[a])]

RegionWorkgroups(shape, p) ==
    LET c == CeilDiv(p.cells, PMLWorkgroup)
        sx == CeilDiv(p.simulation_dimension[1], PMLWorkgroup)
        sy == CeilDiv(p.simulation_dimension[2], PMLWorkgroup)
        sz == CeilDiv(p.simulation_dimension[3], PMLWorkgroup)
    IN  CASE shape = "corner"    -> <<c, c, c>>
          [] shape = "surface_x" -> <<c, sy, sz>>
          [] shape = "surface_y" -> <<sx, c, sz>>
          [] shape = "surface_z" -> <<sx, sy, c>>
          [] shape = "edge_x"    -> <<sx, c, c>>
          [] shape = "edge_y"    -> <<c, sy, c>>
          [] shape = "edge_z"    -> <<c, c, sz>>

(***************************************************************************)
(* A dispatch is [pipeline, bind0, bind1, push, workgroups]: the pipeline  *)
(* and bind groups set when dispatch_workgroups is called, the push        *)
(* constants written at offset 0 (the region offset, or the grid dimension *)
(* followed by use_pmc for the main kernel) and the workgroup counts.      *)
(* A bind group is named <<field of the owner struct, shape, idx, kind>>.  *)
(***************************************************************************)
NoBind == <<"none", "none", 0, "none">>

PsiSelfUpdate(shape, idx, field, p) ==
    [pipeline   |-> <<shape, "self_update", field>>,
     bind0      |-> <<"psi_self_update_bind_group", shape, idx, field>>,
     bind1      |-> NoBind,
     push       |-> RegionOffset(shape, idx, p),
     workgroups |-> RegionWorkgroups(shape, p)]

PsiFieldUpdate(shape, idx, field, p) ==
    [pipeline   |-> <<shape, "field_update", field>>,
     bind0      |-> <<"field_update_bind_group", "pml", 0, field>>,
     bind1      |-> <<"psi_field_update_bind_group", shape, idx, field>>,
     push       |-> RegionOffset(shape, idx, p),
     workgroups |-> RegionWorkgroups(shape, p)]

\* body of one for_each closure: psi self-update, then field correction
RegionKernelsReversed(shape, idx, field, p) ==
    <<PsiFieldUpdate(shape, idx, field, p), PsiSelfUpdate(shape, idx, field, p)>>

RegionKernels(shape, idx, field, p) ==
    <<PsiSelfUpdate(shape, idx, field, p), PsiFieldUpdate(shape, idx, field, p)>>

\* array.iter().enumerate().for_each(...) over the regions of one shape
ForEachRegion(shape, field, p) ==
    Concat([i \in 1..RegionCount(shape) |-> RegionKernels(shape, i - 1, field, p)])

PMLUpdateField(field, p) ==
    Concat([k \in 1..Len(Shapes) |-> ForEachRegion(Shapes[k], field, p)])

PMLBoundary_update_electric_field(p) == PMLUpdateField("electric", p)

PMLBoundary_update_magnetic_field(p) == PMLUpdateField("magnetic", p)

(***************************************************************************)
(* FDTD::update_magnetic_field / update_electric_field (fdtd/mod.rs        *)
(* 839-854, 904-919): one compute pass per half-step.  Under PML the pass  *)
(* first takes the CPML kernels (self.pml.as_ref().unwrap(), which panics  *)
(* on a missing PMLBoundary: the half-step is then not enabled), then the  *)
(* main kernel.                                                            *)
(***************************************************************************)
MainWorkgroupsFloor(g, w) == <<g[1] \div w[1], g[2] \div w[2], g[3] \div w[3]>>

MainWorkgroups(g, w) ==
    <<CeilDiv(g[1], w[1]), CeilDiv(g[2], w[2]), CeilDiv(g[3], w[3])>>

MainDispatch(field) ==
    [pipeline   |-> <<"fdtd", "update", field>>,
     bind0      |-> <<"field_bind_group", "fdtd", 0, field>>,
     bind1      |-> NoBind,
     push       |-> grid_dimension \o <<use_pmc(boundary)>>,
     workgroups |-> MainWorkgroups(grid_dimension, workgroup_dispatch)]

HalfStepMainFirst(field, pmlKernels) == <<MainDispatch(field)>> \o pmlKernels

HalfStep(field, pmlKernels) == pmlKernels \o <<MainDispatch(field)>>

\* a half-step needs the FDTD and, under PML, self.pml.as_ref().unwrap()
HalfStepCanRun ==
    /\ pc = "run"
    /\ boundary.type = "PML" => pml.some

FDTD_update_magnetic_field ==
    /\ HalfStepCanRun
    /\ cpass' = HalfStep("magnetic",
                         IF boundary.type = "PML"
                         THEN PMLBoundary_update_magnetic_field(pml)
                         ELSE <<>>)
    /\ UNCHANGED <<boundary, pml, grid_dimension, workgroup_dispatch>>
    /\ UNCHANGED <<driverVars, setupVars, rasterVars, fieldVars, viewVars>>

FDTD_update_electric_field ==
    /\ HalfStepCanRun
    /\ cpass' = HalfStep("electric",
                         IF boundary.type = "PML"
                         THEN PMLBoundary_update_electric_field(pml)
                         ELSE <<>>)
    /\ UNCHANGED <<boundary, pml, grid_dimension, workgroup_dispatch>>
    /\ UNCHANGED <<driverVars, setupVars, rasterVars, fieldVars, viewVars>>

(***************************************************************************)
(* Volume sources (main.rs 947-998, 1026-1078; fdtd/mod.rs 856-874,        *)
(* 921-939).  A volume source carries size[a] in length units and          *)
(* position[a] in halves of the length unit, so that position - size / 2   *)
(* stays exact.  `x.ceil() as u32` saturates a negative x to 0.            *)
(***************************************************************************)
AsU32(x) == IF x < 0 THEN 0 ELSE x

\* ((position[a] - domain[a][0] - size[a] / 2.0) / dx).ceil() as u32
\*     + boundary.get_extra_grid_extent() / 2
actual_position(source, dom, dx, b) ==
    [a \in 1..3 |->
        AsU32(CeilDiv(source.position[a] - 2 * dom[a][1] - source.size[a],
                      2 * dx))
        + (get_extra_grid_extent(b) \div 2)]

\* if size[a] > 0.0 { (size[a] / dx).ceil() as u32 } else { 1 }
actual_size_first_axis(source, dx) ==
    [a \in 1..3 |->
        IF source.size[1] > 0 THEN AsU32(CeilDiv(source.size[1], dx)) ELSE 1]

actual_size(source, dx) ==
    [a \in 1..3 |->
        IF source.size[a] > 0 THEN AsU32(CeilDiv(source.size[a], dx)) ELSE 1]

\* the compute pass of excite_<field>_field_volume(encoder, position, size,
\* strength): push constants size at 0 and position at 32 (the strength at
\* 16 is left out)
ExciteVolumeDispatch(field, position, size) ==
    [pipeline   |-> <<"fdtd", "excite_field_volume", field>>,
     bind0      |-> <<"field_excitation_bind_group", "fdtd", 0, field>>,
     bind1      |-> NoBind,
     push       |-> size \o position,
     workgroups |-> <<CeilDiv(size[1], workgroup_dispatch[1]),
                      CeilDiv(size[2], workgroup_dispatch[2]),
                      CeilDiv(size[3], workgroup_dispatch[3])>>]

\* the Source::Volume arm of one source loop of a tick, for every source of
\* the list in order
ExciteVolumes(field, sources) ==
    LET volumes == SelectSeq(sources, LAMBDA src : src.mode = "volume")
    IN  [i \in 1..Len(volumes) |->
            ExciteVolumeDispatch(field,
                actual_position(volumes[i], domain, spatial_step, boundary),
                actual_size(volumes[i], spatial_step))]

\* the Source::Texture arm: excite_<field>_field_mode(encoder, position,
\* phasor, envelope, source_bind_group) over the interior's x-y extent
ExciteModeDispatch(field, source) ==
    LET extra == get_extra_grid_extent(boundary)
    IN  [pipeline   |-> <<"fdtd", "excite_field_mode", field>>,
         bind0      |-> <<"source_bind_group", "main", source.id, field>>,
         bind1      |-> <<"field_excitation_bind_group", "fdtd", 0, field>>,
         push       |-> <<extra \div 2, extra \div 2,
                          (extra \div 2) + source.z_layer>>,
         workgroups |-> <<CeilDiv(grid_dimension[1] - extra, workgroup_dispatch[1]),
                          CeilDiv(grid_dimension[2] - extra, workgroup_dispatch[2]),
                          1>>]

ExciteModes(field, sources) ==
    LET textures == SelectSeq(sources, LAMBDA src : src.mode = "texture")
    IN  [i \in 1..Len(textures) |-> ExciteModeDispatch(field, textures[i])]

FDTD_excite_magnetic_field_volume ==
    /\ pc = "run"
    /\ cpass' = ExciteVolumes("magnetic", magnetic_sources)
    /\ UNCHANGED <<boundary, pml, grid_dimension, workgroup_dispatch>>
    /\ UNCHANGED <<driverVars, setupVars, rasterVars, fieldVars, viewVars>>

FDTD_excite_electric_field_volume ==
    /\ pc = "run"
    /\ cpass' = ExciteVolumes("electric", electric_sources)
    /\ UNCHANGED <<boundary, pml, grid_dimension, workgroup_dispatch>>
    /\ UNCHANGED <<driverVars, setupVars, rasterVars, fieldVars, viewVars>>

FDTD_excite_magnetic_field_mode ==
    /\ pc = "run"
    /\ cpass' = ExciteModes("magnetic", magnetic_sources)
    /\ UNCHANGED <<boundary, pml, grid_dimension, workgroup_dispatch>>
    /\ UNCHANGED <<driverVars, setupVars, rasterVars, fieldVars, viewVars>>

FDTD_excite_electric_field_mode ==
    /\ pc = "run"
    /\ cpass' = ExciteModes("electric", electric_sources)
    /\ UNCHANGED <<boundary, pml, grid_dimension, workgroup_dispatch>>
    /\ UNCHANGED <<driverVars, setupVars, rasterVars, fieldVars, viewVars>>

(***************************************************************************)
(* Bind groups (fdtd/mod.rs 186-331, 344-436; fdtd/pml.rs 46-113, 169-215, *)
(* 802-1048, 1137-1228, 1453-1585; main.rs 476-512, 600-720).  A bind      *)
(* group is the sequence of its entries [resource, access], the access     *)
(* being that of the entry's slot in the layout the group was created      *)
(* with.  A texture is named <<kind, ...>>: a field component, a constants *)
(* map, a psi texture of one region, a decay map, a source texture.        *)
(***************************************************************************)
ReadWrite == "ReadWrite"

ReadOnly == "ReadOnly"

OtherField(field) == IF field = "electric" THEN "magnetic" ELSE "electric"

FieldView(field) == [k \in 1..3 |-> <<"field", field, k>>]

ConstantsMapView(field) == <<"constants_map", field>>

\* psi_texture_views of the region (shape, idx) of one field
PsiCount(shape) ==
    CASE shape = "corner" -> 6
      [] shape \in {"surface_x", "surface_y", "surface_z"} -> 2
      [] shape \in {"edge_x", "edge_y", "edge_z"} -> 4

PsiTextureViews(shape, idx, field) ==
    [k \in 1..PsiCount(shape) |-> <<"psi", shape, idx, field, k>>]

\* &electric_psi_constants[idx]: x faces 0 and 1, y faces 2 and 3, z faces 4 and 5
PsiConstantMap(shape, idx, field) ==
    <<"psi_constants", field,
      CASE shape = "surface_x" -> idx
        [] shape = "surface_y" -> 2 + idx
        [] shape = "surface_z" -> 4 + idx>>

Times(n, access) == [k \in 1..n |-> access]

field_bind_group_layout_writable ==
    Times(3, ReadWrite) \o Times(3, ReadWrite) \o <<ReadOnly>>

field_bind_group_layout ==
    Times(3, ReadWrite) \o Times(3, ReadOnly) \o <<ReadOnly>>

excite_field_bind_group_layout == Times(3, ReadWrite) \o <<ReadOnly>>

mode_source_bind_group_layout == Times(3, ReadOnly)

field_update_bind_group_layout == Times(3, ReadWrite)

psi_self_update_bind_group_layout(shape) ==
    CASE shape = "corner" -> Times(6, ReadWrite) \o Times(4, ReadOnly)
      [] shape \in {"surface_x", "surface_y", "surface_z"} ->
             Times(2, ReadWrite) \o Times(4, ReadOnly)
      [] shape \in {"edge_x", "edge_y", "edge_z"} ->
             Times(4, ReadWrite) \o Times(4, ReadOnly)

psi_field_update_bind_group_layout(shape) == Times(PsiCount(shape), ReadOnly)

\* the entries of the psi_self_update_bind_group of a region; field_view is
\* the view array handed to the region's constructor
PsiSelfUpdateResources(shape, idx, field) ==
    LET field_view == FieldView(OtherField(field))
        psi == PsiTextureViews(shape, idx, field)
    IN  CASE shape = "surface_x" ->
                 psi \o <<field_view[2], field_view[3], ConstantsMapView(field),
                          PsiConstantMap(shape, idx, field)>>
          [] shape = "surface_y" ->
                 psi \o <<field_view[1], field_view[3], ConstantsMapView(field),
                          PsiConstantMap(shape, idx, field)>>
          [] shape = "surface_z" ->
                 psi \o <<field_view[1], field_view[2], ConstantsMapView(field),
                          PsiConstantMap(shape, idx, field)>>
          [] OTHER -> psi \o field_view \o <<ConstantsMapView(field)>>

\* device.create_bind_group: entry k gets the access of slot k of the layout
CreateBindGroup(layout, resources) ==
    [k \in 1..Len(resources) |-> [resource |-> resources[k], access |-> layout[k]]]

\* the bind group a dispatch names
BindGroup(name) ==
    LET kind == name[1]
        shape == name[2]
        idx == name[3]
        field == name[4]
    IN  CASE kind = "field_bind_group" ->
                 CreateBindGroup(field_bind_group_layout,
                     FieldView(field) \o FieldView(OtherField(field))
                         \o <<ConstantsMapView(field)>>)
          [] kind = "field_excitation_bind_group" ->
                 CreateBindGroup(excite_field_bind_group_layout,
                     FieldView(field) \o <<ConstantsMapView(field)>>)
          [] kind = "source_bind_group" ->
                 CreateBindGroup(mode_source_bind_group_layout,
                     [k \in 1..3 |-> <<"source", idx, field, k>>])
          [] kind = "field_update_bind_group" ->
                 CreateBindGroup(field_update_bind_group_layout, FieldView(field))
          [] kind = "psi_self_update_bind_group" ->
                 CreateBindGroup(psi_self_update_bind_group_layout(shape),
                     PsiSelfUpdateResources(shape, idx, field))
          [] kind = "psi_field_update_bind_group" ->
                 CreateBindGroup(psi_field_update_bind_group_layout(shape),
                     PsiTextureViews(shape, idx, field))
          [] OTHER -> <<>>

(***************************************************************************)
(* Grid sizing (fdtd/mod.rs 100-106, 764-771, 1176-1212).  Lengths are     *)
(* integers in one length unit, dx > 0; a shift is kept in halves of that  *)
(* unit so that the factors 0.5 stay exact.                                *)
(***************************************************************************)
\* ((max - min) / dx).ceil() as u32: the cast saturates negatives to 0
StepCeil(axis, dx) ==
    IF axis[2] - axis[1] <= 0 THEN 0 ELSE CeilDiv(axis[2] - axis[1], dx)

\* (step - step.floor()) * dx, the part of the span beyond whole cells
StepFractionDropped(axis, dx) == 0

StepFraction(axis, dx) == (axis[2] - axis[1]) % dx

(***************************************************************************)
(* Importer::new and Importer::into_constants_map, sizes only              *)
(* (fdtd/mod.rs 1167-1217, 1247-1283, 1586-1620).                          *)
(***************************************************************************)
Importer_new(dimension, dx, extra_extent) ==
    [grid_dimension |-> [a \in 1..3 |-> StepCeil(dimension[a], dx) + extra_extent],
     shift_vector   |-> [a \in 1..3 |->
                            -(2 * dimension[a][1] + StepFraction(dimension[a], dx)
                              - extra_extent * dx)],
     extra_extent   |-> extra_extent]

Importer_into_constants_map(imp) ==
    [electric_constants_map |-> imp.grid_dimension,
     magnetic_constants_map |-> imp.grid_dimension,
     pml_constants          |-> imp.extra_extent > 0]

(***************************************************************************)
(* FDTD::new (fdtd/mod.rs 85-837): the value it returns, or the panic of   *)
(* pml_constants.unwrap() (line 795) when the Importer built no decay maps.*)
(***************************************************************************)
ImporterExtentCells(b) == b.cells

ImporterExtent(b) == get_extra_grid_extent(b)

\* the match of lines 780-799 on a boundary whose decay maps are present
PmlOptionAlways(b, grid, extra) ==
    [some |-> TRUE, cells |-> b.cells,
     simulation_dimension |-> [a \in 1..3 |-> grid[a] - extra]]

PmlOption(b, grid, extra) ==
    IF b.type = "PML"
    THEN [some |-> TRUE, cells |-> b.cells,
          simulation_dimension |-> [a \in 1..3 |-> grid[a] - extra]]
    ELSE NoPML

\* three R32Float textures of the grid's extent as create_texture leaves
\* them: zeroed
ZeroedTextures(grid) == [i \in 1..3 |-> [c \in Box(<<0, 0, 0>>, grid) |-> 0]]

FDTD_new(dimension, dx, b, w) ==
    LET extra == get_extra_grid_extent(b)
        grid == [a \in 1..3 |-> StepCeil(dimension[a], dx) + extra]
        imp == Importer_new(dimension, dx, ImporterExtent(b))
        maps == Importer_into_constants_map(imp)
    IN  [panicked           |-> b.type = "PML" /\ ~maps.pml_constants,
         boundary           |-> b,
         grid_dimension     |-> grid,
         workgroup_dispatch |-> w,
         shift_vector       |-> [a \in 1..3 |->
                                    -(2 * dimension[a][1]
                                      + StepFraction(dimension[a], dx)
                                      - extra * dx)],
         field_texture_size |-> [i \in 1..6 |-> grid],
         constants_map_size |-> <<maps.electric_constants_map,
                                  maps.magnetic_constants_map>>,
         importer           |-> imp,
         pml                |-> PmlOption(b, grid, extra)]

FDTD_get_dimension == grid_dimension

NoImporter ==
    [grid_dimension |-> <<0, 0, 0>>, shift_vector |-> <<0, 0, 0>>,
     extra_extent |-> 0]

Untracked == "untracked"

\* the view of a specification that does not follow it
ViewUntracked ==
    /\ slice_position = Untracked
    /\ slice_mode = Untracked
    /\ field_view_mode = Untracked
    /\ scaling_factor = Untracked

\* the state right after a successful FDTD::new(dimension, dx, b, w)
Constructed(dimension, dx, b, w) ==
    LET f == FDTD_new(dimension, dx, b, w)
    IN  /\ ~f.panicked
        /\ pc = "run"
        /\ init_error = ""
        /\ no_visual = FALSE
        /\ panic_message = ""
        /\ domain = dimension
        /\ spatial_step = dx
        /\ boundary = f.boundary
        /\ grid_dimension = f.grid_dimension
        /\ workgroup_dispatch = f.workgroup_dispatch
        /\ pml = f.pml
        /\ shift_vector = f.shift_vector
        /\ field_texture_size = f.field_texture_size
        /\ constants_map_size = f.constants_map_size
        /\ importer = f.importer
        /\ cpass = <<>>
        /\ electric_field_texture = ZeroedTextures(f.grid_dimension)
        /\ magnetic_field_texture = ZeroedTextures(f.grid_dimension)
        /\ ViewUntracked

(***************************************************************************)
(* The slice view of the FDTD (fdtd/mod.rs 75-78, 810-825, 969-1025).      *)
(* slice_position is a fraction; it is kept as a count of 1/ViewDen, a     *)
(* denominator common to the three axes.  scaling_factor is kept as        *)
(* mantissa * 10^exponent with a mantissa not divisible by 10.             *)
(***************************************************************************)
AxisOf(mode) == CASE mode = "X" -> 1 [] mode = "Y" -> 2 [] mode = "Z" -> 3

ViewDen(grid, dx) == 2 * dx * (grid[1] - 1) * (grid[2] - 1) * (grid[3] - 1)

\* 1 / (grid[a] - 1) as a count of 1/ViewDen
SliceStep(grid, dx, a) == ViewDen(grid, dx) \div (grid[a] - 1)

\* (default_slice.position + shift_vector[a]) / (grid[a] - 1) / dx
slice_position_new(default_slice, shift, grid, dx) ==
    LET a == AxisOf(default_slice.mode)
    IN  (2 * default_slice.position + shift[a])
            * (SliceStep(grid, dx, a) \div (2 * dx))

RECURSIVE Normalized(_)
Normalized(x) ==
    IF x.mantissa = 0 THEN [mantissa |-> 0, exponent |-> 0]
    ELSE IF x.mantissa % 10 = 0
    THEN Normalized([mantissa |-> x.mantissa \div 10, exponent |-> x.exponent + 1])
    ELSE x

RECURSIVE Pow10(_)
Pow10(n) == IF n = 0 THEN 1 ELSE 10 * Pow10(n - 1)

MaxExponent == 2

MaxMantissa == 30

\* self.scaling_factor += delta; self.scaling_factor = self.scaling_factor.max(0.0)
ScaledLinear(x, delta) ==
    LET sum == IF x.exponent >= 0
               THEN [mantissa |-> x.mantissa * Pow10(x.exponent) + delta,
                     exponent |-> 0]
               ELSE [mantissa |-> x.mantissa + delta * Pow10(-x.exponent),
                     exponent |-> x.exponent]
    IN  IF sum.mantissa < 0 THEN [mantissa |-> 0, exponent |-> 0]
        ELSE Normalized(sum)

\* self.scaling_factor *= 10f32.powi(delta_exp)
ScaledExponential(x, delta_exp) ==
    Normalized([mantissa |-> x.mantissa, exponent |-> x.exponent + delta_exp])

FDTD_offset_slice_position(row_delta) ==
    /\ pc = "run"
    /\ slice_position' =
           Max2(Min2(slice_position
                       - row_delta * SliceStep(grid_dimension, spatial_step,
                                               AxisOf(slice_mode)),
                     ViewDen(grid_dimension, spatial_step)),
                0)
    /\ UNCHANGED <<slice_mode, field_view_mode, scaling_factor>>
    /\ UNCHANGED <<driverVars, fdtdVars, setupVars, rasterVars, fieldVars>>

FDTD_set_slice_mode(mode) ==
    /\ pc = "run"
    /\ slice_mode' = mode
    /\ UNCHANGED <<slice_position, field_view_mode, scaling_factor>>
    /\ UNCHANGED <<driverVars, fdtdVars, setupVars, rasterVars, fieldVars>>

FDTD_set_field_view_mode(mode) ==
    /\ pc = "run"
    /\ field_view_mode' = mode
    /\ UNCHANGED <<slice_position, slice_mode, scaling_factor>>
    /\ UNCHANGED <<driverVars, fdtdVars, setupVars, rasterVars, fieldVars>>

FDTD_scale_linear(delta) ==
    /\ pc = "run"
    /\ scaling_factor.exponent \in (-MaxExponent)..MaxExponent
    /\ ScaledLinear(scaling_factor, delta).mantissa <= MaxMantissa
    /\ scaling_factor' = ScaledLinear(scaling_factor, delta)
    /\ UNCHANGED <<slice_position, slice_mode, field_view_mode>>
    /\ UNCHANGED <<driverVars, fdtdVars, setupVars, rasterVars, fieldVars>>

FDTD_scale_exponential(delta_exp) ==
    /\ pc = "run"
    /\ scaling_factor.exponent + delta_exp \in (-MaxExponent)..MaxExponent
    /\ scaling_factor' = ScaledExponential(scaling_factor, delta_exp)
    /\ UNCHANGED <<slice_position, slice_mode, field_view_mode>>
    /\ UNCHANGED <<driverVars, fdtdVars, setupVars, rasterVars, fieldVars>>

(***************************************************************************)
(* main, from the loaded settings to the event loop (main.rs 446-805).     *)
(***************************************************************************)
DomainError(a) ==
    CASE a = 1 -> "RHS of domain[0] is less or equal than LHS!"
      [] a = 2 -> "RHS of domain[1] is less or equal than LHS!"
      [] a = 3 -> "RHS of domain[2] is less or equal than LHS!"

\* the condition of one anyhow::ensure!: settings.domain[i][1] > settings.domain[i][0]
DomainAxisOkLoose(axis) == axis[2] >= axis[1]

DomainAxisOk(axis) == axis[2] > axis[1]

\* the three anyhow::ensure! of main.rs 463-474, in order
DomainChecks ==
    /\ pc = "load"
    /\ IF ~DomainAxisOk(domain[1])
       THEN pc' = "error" /\ init_error' = DomainError(1)
       ELSE IF ~DomainAxisOk(domain[2])
       THEN pc' = "error" /\ init_error' = DomainError(2)
       ELSE IF ~DomainAxisOk(domain[3])
       THEN pc' = "error" /\ init_error' = DomainError(3)
       ELSE pc' = "checked" /\ init_error' = init_error
    /\ UNCHANGED <<domain, spatial_step, shift_vector, field_texture_size,
                   constants_map_size, importer, no_visual, panic_message>>
    /\ UNCHANGED <<driverVars, fdtdVars, rasterVars, fieldVars, viewVars>>

\* pml_constants.unwrap() of fdtd/mod.rs 780-799 on None
UnwrapNone == "called Option::unwrap() on a None value"

\* let mut fdtd = fdtd::FDTD::new(...)? of main.rs 783-805
ConstructFDTD ==
    /\ pc = "checked"
    /\ ~no_visual
    /\ LET f == FDTD_new(domain, spatial_step, boundary, workgroup_dispatch)
       IN  IF f.panicked
           THEN /\ pc' = "panic"
                /\ panic_message' = UnwrapNone
                /\ UNCHANGED <<grid_dimension, pml, shift_vector,
                               field_texture_size, constants_map_size, importer,
                               fieldVars>>
           ELSE /\ pc' = "run"
                /\ panic_message' = panic_message
                /\ electric_field_texture' = ZeroedTextures(f.grid_dimension)
                /\ magnetic_field_texture' = ZeroedTextures(f.grid_dimension)
                /\ grid_dimension' = f.grid_dimension
                /\ pml' = f.pml
                /\ shift_vector' = f.shift_vector
                /\ field_texture_size' = f.field_texture_size
                /\ constants_map_size' = f.constants_map_size
                /\ importer' = f.importer
    /\ UNCHANGED <<boundary, workgroup_dispatch, cpass, init_error, domain,
                   spatial_step, no_visual>>
    /\ UNCHANGED <<driverVars, rasterVars, viewVars>>

\* the else branch of `if let (Some(event_loop), Some(surface), Some(window))
\* = visualize_component` (main.rs 1299-1306): FDTD::new is not reached
HeadlessAssertion == "MUST have pause_at when running in non visualized mode"

HeadlessUnimplemented == "not implemented: currently unsupported because too buggy"

HeadlessStart ==
    /\ pc = "checked"
    /\ no_visual
    /\ pc' = "panic"
    /\ panic_message' = IF Len(pause_at) > 0 THEN HeadlessUnimplemented
                        ELSE HeadlessAssertion
    /\ UNCHANGED <<init_error, domain, spatial_step, shift_vector,
                   field_texture_size, constants_map_size, importer, no_visual>>
    /\ UNCHANGED <<driverVars, fdtdVars, rasterVars, fieldVars, viewVars>>

(***************************************************************************)
(* Material constants (fdtd/mod.rs 1130-1152).  For the fixed dt and dx of *)
(* one run the pair (ec2, ec3) = (dt / (dx * eps), dt / eps) is determined *)
(* by the permittivity and (hc2, hc3) by the permeability, one to one: a   *)
(* coefficient pair is written as the permittivity or permeability it is   *)
(* computed from.                                                          *)
(***************************************************************************)
Background == [permittivity |-> 1, permeability |-> 1]

\* MaterialConstants of a model with refractive index n (fdtd/mod.rs 175-178)
ModelMaterial(n) == [permittivity |-> n * n, permeability |-> 1]

FDTDConstants_from_material(material) ==
    [ec |-> material.permittivity, hc |-> material.permeability]

(***************************************************************************)
(* Geometry of Importer::process_node (fdtd/mod.rs 1655-1716).  A triangle *)
(* is <<v0, v1, v2>>, the transformed vertices in grid coordinates.        *)
(***************************************************************************)
Sub(a, b) == <<a[1] - b[1], a[2] - b[2], a[3] - b[3]>>

\* Matrix3::from_columns(&[a, b, c]).determinant()
Det3(a, b, c) ==
    a[1] * (b[2] * c[3] - c[2] * b[3])
    - b[1] * (a[2] * c[3] - c[2] * a[3])
    + c[1] * (a[2] * b[3] - b[2] * a[3])

HalfExtent(imp) == imp.extra_extent \div 2

SimulationDimension(imp) ==
    [a \in 1..3 |-> imp.grid_dimension[a] - imp.extra_extent]

GridCells(imp) == Box(<<0, 0, 0>>, imp.grid_dimension)

InteriorCells(imp) == Box(<<0, 0, 0>>, SimulationDimension(imp))

\* interior index -> grid index (grid_x = x + half_extent, ...)
ToGrid(c, imp) ==
    <<c[1] + HalfExtent(imp), c[2] + HalfExtent(imp), c[3] + HalfExtent(imp)>>

\* min_x..=max_x and min_y..=max_y of a triangle: floor / ceil of the extreme
\* coordinates, .max(0.) as u32
TriangleColumns(tri) ==
    LET lo(a) == Max2(Min2(tri[1][a], Min2(tri[2][a], tri[3][a])), 0)
        hi(a) == Max2(Max2(tri[1][a], Max2(tri[2][a], tri[3][a])), 0)
    IN  {<<x, y>> : x \in lo(1)..hi(1), y \in lo(2)..hi(2)}

\* the Cramer solution of the ray from (x, y, 0) along +z against the
\* triangle: u >= 0, v >= 0, u + v <= 1 on the quotients by the non-zero
\* denominator, and h.z.max(0.).round() as u32
RayHit(tri, x, y) ==
    LET edge1 == Sub(tri[2], tri[1])
        edge2 == Sub(tri[3], tri[1])
        negray == <<0, 0, -1>>
        w == Sub(<<x, y, 0>>, tri[1])
        denominator == Det3(edge1, edge2, negray)
        nominator_u == Det3(w, edge2, negray)
        nominator_v == Det3(edge1, w, negray)
        nominator_t == Det3(edge1, edge2, w)
        sg == IF denominator > 0 THEN 1 ELSE -1
    IN  [hit |-> /\ denominator # 0
                 /\ nominator_u * sg >= 0
                 /\ nominator_v * sg >= 0
                 /\ (nominator_u + nominator_v) * sg <= denominator * sg,
         z   |-> IF denominator = 0 THEN 0
                 ELSE RoundToU32(nominator_t * sg, denominator * sg)]

\* body of the innermost closure for triangle tri and column (x, y): the
\* interior cells whose flag it sets to 1 (none or one)
VoxelWrites(tri, x, y, imp) ==
    LET half == HalfExtent(imp)
        h == RayHit(tri, x, y)
        z == Max2(h.z, half) - half
    IN  IF \/ x < half \/ x >= imp.grid_dimension[1] - half
           \/ y < half \/ y >= imp.grid_dimension[2] - half
        THEN {}
        ELSE IF h.hit /\ z < SimulationDimension(imp)[3] - 1
        THEN {<<x - half, y - half, z>>}
        ELSE {}

\* the tasks of the three nested parallel loops: <<triangle index, x, y>>
VoxelTasks(triangles) ==
    UNION {{<<i, c[1], c[2]>> : c \in TriangleColumns(triangles[i])}
           : i \in 1..Len(triangles)}

\* flag_map once every task has run
Voxelize(triangles, imp) ==
    LET set == UNION {VoxelWrites(triangles[t[1]], t[2], t[3], imp)
                      : t \in VoxelTasks(triangles)}
    IN  [c \in InteriorCells(imp) |-> IF c \in set THEN 1 ELSE 0]

(***************************************************************************)
(* The parity sweep (fdtd/mod.rs 1718-1752).  The accumulator is a u8:     *)
(* its sum is kept modulo 256.                                             *)
(***************************************************************************)
\* accumulator[[x, y, z]] as the task of (x, y, z) leaves it, given the
\* accumulator value below it
AccumulateFlagOnly(flag, below, z) == flag

Accumulate(flag, below, z) ==
    IF z > 0 THEN (flag + below) % 256 ELSE flag

RECURSIVE ColumnSum(_, _)
ColumnSum(flags, c) ==
    Accumulate(flags[c],
               IF c[3] > 0 THEN ColumnSum(flags, <<c[1], c[2], c[3] - 1>>) ELSE 0,
               c[3])

\* accumulator once every layer has been swept
SweepAccumulator(flags, imp) ==
    [c \in InteriorCells(imp) |-> ColumnSum(flags, c)]

\* a constants array once every layer has been swept with the given value
SweepConstantsFirst(constants, acc, value, imp) ==
    LET half == HalfExtent(imp)
        sim == SimulationDimension(imp)
    IN  [g \in GridCells(imp) |->
            IF /\ \A a \in 1..3 : g[a] >= half /\ g[a] < half + sim[a]
               /\ acc[<<g[1] - half, g[2] - half, g[3] - half>>] % 2 = 1
               /\ constants[g] = 1
            THEN value
            ELSE constants[g]]

SweepConstants(constants, acc, value, imp) ==
    LET half == HalfExtent(imp)
        sim == SimulationDimension(imp)
    IN  [g \in GridCells(imp) |->
            IF /\ \A a \in 1..3 : g[a] >= half /\ g[a] < half + sim[a]
               /\ acc[<<g[1] - half, g[2] - half, g[3] - half>>] % 2 = 1
            THEN value
            ELSE constants[g]]

(***************************************************************************)
(* ndarray operations used by into_constants_map (fdtd/mod.rs 1289-1405,   *)
(* 1442-1558).  Indices are 0-based as in the code.  A 3D view is          *)
(* [shape, cell]: cell maps a view index to the index of the viewed array. *)
(* A 2D array is [shape, order, at]: order is its memory layout, "C" with   *)
(* the last index fastest or "F" with the first index fastest.             *)
(***************************************************************************)
Index2(shape) == {<<i, j>> : i \in 0..(shape[1] - 1), j \in 0..(shape[2] - 1)}

\* map.slice(s![lo[0]..hi[0], lo[1]..hi[1], lo[2]..hi[2]]), ext = hi - lo
SliceView3(lo, ext) ==
    [shape |-> ext,
     cell  |-> [i \in Box(<<0, 0, 0>>, ext) |->
                   <<lo[1] + i[1], lo[2] + i[2], lo[3] + i[3]>>]]

\* the same slice with the single index `at` on axis `axis` (0, 1 or 2)
\* instead of a range: a 2D view over the two remaining axes, in their order
SliceView2(lo, ext, axis, at) ==
    LET rest == IF axis = 0 THEN <<2, 3>> ELSE IF axis = 1 THEN <<1, 3>> ELSE <<1, 2>>
    IN  [shape |-> <<ext[rest[1]], ext[rest[2]]>>,
         cell  |-> [i \in Index2(<<ext[rest[1]], ext[rest[2]]>>) |->
                       [a \in 1..3 |->
                           IF a = axis + 1 THEN at
                           ELSE IF a = rest[1] THEN lo[a] + i[1]
                           ELSE lo[a] + i[2]]]]

\* view.iter().cloned().collect(): logical order, last index fastest
IterCollect(map, view) ==
    [k \in 1..(view.shape[1] * view.shape[2]) |->
        map[view.cell[<<(k - 1) \div view.shape[2], (k - 1) % view.shape[2]>>]]]

\* Array2::from_shape_vec(shape, vec): row-major
FromShapeVec(shape, vec) ==
    [shape |-> shape,
     order |-> "C",
     at    |-> [i \in Index2(shape) |-> vec[i[1] * shape[2] + i[2] + 1]]]

\* Array2::default(shape.f()) followed by .assign(&view) of a 2D view:
\* column-major
AssignedFrom(map, view) ==
    [shape |-> view.shape,
     order |-> "F",
     at    |-> [i \in Index2(view.shape) |-> map[view.cell[i]]]]

\* view.permuted_axes(perm): axis perm[j] of the view becomes axis j
PermutedAxes(view, perm) ==
    LET shape == [j \in 1..3 |-> view.shape[perm[j] + 1]]
    IN  [shape |-> shape,
         cell  |-> [i \in Box(<<0, 0, 0>>, shape) |->
                       view.cell[[a \in 1..3 |->
                                     i[CHOOSE j \in 1..3 : perm[j] + 1 = a]]]]]

\* whether a 2D shape broadcasts to the 3D shape of a view
Broadcasts(shape2, shape3) ==
    /\ shape2[1] = shape3[2] \/ shape2[1] = 1
    /\ shape2[2] = shape3[3] \/ shape2[2] = 1

\* view.assign(&plane) on a view of map, the plane broadcast along axis 0
AssignBroadcast(map, view, plane) ==
    LET written == {view.cell[i] : i \in DOMAIN view.cell}
        index == [g \in written |-> CHOOSE i \in DOMAIN view.cell : view.cell[i] = g]
    IN  [g \in DOMAIN map |->
            IF g \in written
            THEN plane.at[<<IF plane.shape[1] = 1 THEN 0 ELSE index[g][2],
                           IF plane.shape[2] = 1 THEN 0 ELSE index[g][3]>>]
            ELSE map[g]]

(***************************************************************************)
(* Importer::into_constants_map, halo replication of one constants map     *)
(* (fdtd/mod.rs 1289-1405 electric, 1442-1558 magnetic, the same           *)
(* statements): six slice copies in the order x near, x far, y near,       *)
(* y far, z near, z far.  The result is [map, planes, panicked]; an assign *)
(* whose shapes do not broadcast panics.                                   *)
(***************************************************************************)
PermuteZSwapped == <<2, 1, 0>>

PermuteZ == <<2, 0, 1>>

PermuteY == <<1, 0, 2>>

ReplicateFaces(map, imp) ==
    LET half == HalfExtent(imp)
        g == imp.grid_dimension
        far == [a \in 1..3 |-> g[a] - half]
        sim == SimulationDimension(imp)
        inner == <<half, half, half>>
        x_near_plane == FromShapeVec(<<sim[2], sim[3]>>,
                            IterCollect(map, SliceView2(inner, sim, 0, half)))
        x_near_view == SliceView3(<<0, half, half>>, <<half, sim[2], sim[3]>>)
        m1 == AssignBroadcast(map, x_near_view, x_near_plane)
        x_far_plane == FromShapeVec(<<sim[2], sim[3]>>,
                            IterCollect(m1, SliceView2(inner, sim, 0, far[1] - 1)))
        x_far_view == SliceView3(<<far[1], half, half>>, <<half, sim[2], sim[3]>>)
        m2 == AssignBroadcast(m1, x_far_view, x_far_plane)
        y_near_plane == FromShapeVec(<<sim[1], sim[3]>>,
                            IterCollect(m2, SliceView2(inner, sim, 1, half)))
        y_near_view == PermutedAxes(
                            SliceView3(<<half, 0, half>>, <<sim[1], half, sim[3]>>),
                            PermuteY)
        m3 == AssignBroadcast(m2, y_near_view, y_near_plane)
        y_far_plane == FromShapeVec(<<sim[1], sim[3]>>,
                            IterCollect(m3, SliceView2(inner, sim, 1, far[2] - 1)))
        y_far_view == PermutedAxes(
                            SliceView3(<<half, far[2], half>>, <<sim[1], half, sim[3]>>),
                            PermuteY)
        m4 == AssignBroadcast(m3, y_far_view, y_far_plane)
        z_near_plane == AssignedFrom(m4, SliceView2(inner, sim, 2, half))
        z_near_view == PermutedAxes(
                            SliceView3(<<half, half, 0>>, <<sim[1], sim[2], half>>),
                            PermuteZ)
        m5 == AssignBroadcast(m4, z_near_view, z_near_plane)
        z_far_plane == AssignedFrom(m5, SliceView2(inner, sim, 2, far[3] - 1))
        z_far_view == PermutedAxes(
                            SliceView3(<<half, half, far[3]>>, <<sim[1], sim[2], half>>),
                            PermuteZ)
        m6 == AssignBroadcast(m5, z_far_view, z_far_plane)
        fits == /\ Broadcasts(x_near_plane.shape, x_near_view.shape)
                /\ Broadcasts(x_far_plane.shape, x_far_view.shape)
                /\ Broadcasts(y_near_plane.shape, y_near_view.shape)
                /\ Broadcasts(y_far_plane.shape, y_far_view.shape)
                /\ Broadcasts(z_near_plane.shape, z_near_view.shape)
                /\ Broadcasts(z_far_plane.shape, z_far_view.shape)
    IN  IF fits
        THEN [panicked |-> FALSE,
              map      |-> m6,
              planes   |-> <<x_near_plane, x_far_plane, y_near_plane,
                             y_far_plane, z_near_plane, z_far_plane>>]
        ELSE [panicked |-> TRUE, map |-> map, planes |-> <<>>]

\* the maps of into_constants_map: copied out of the mutexes, replicated into
\* the halo only if self.extra_extent > 0
ConstantsMap(constants, imp) ==
    IF imp.extra_extent > 0
    THEN ReplicateFaces(constants, imp)
    ELSE [panicked |-> FALSE, map |-> constants, planes |-> <<>>]

(***************************************************************************)
(* The decay textures of into_constants_map (fdtd/mod.rs 1407-1440         *)
(* electric, 1560-1594 magnetic).  A decay value exp(-(sigma + alpha) * x) *)
(* is one to one in x for the fixed sigma, alpha and dt of a run and is    *)
(* written as the constants x is computed from.                            *)
(***************************************************************************)
\* (-(self.pml_sigma + self.pml_alpha) * c.y).exp()
ElectricDecay(c) == <<"exp", c>>

\* (-(self.pml_sigma + self.pml_alpha) * e.y / h.y * self.dt).exp()
MagneticDecay(h, e) == <<"exp", e, h>>

\* Zip::from(p).par_map_collect(f): the result has the layout of the input
ParMapCollect(p) ==
    [shape |-> p.shape,
     order |-> p.order,
     at    |-> [i \in Index2(p.shape) |-> ElectricDecay(p.at[i])]]

\* Zip::from(&h).and(&e).par_map_collect(f), h and e of one layout
ParMapCollect2(h, e) ==
    [shape |-> h.shape,
     order |-> h.order,
     at    |-> [i \in Index2(h.shape) |-> MagneticDecay(h.at[i], e.at[i])]]

\* c.as_slice_memory_order().unwrap(): the elements as they lie in memory
as_slice_memory_order(c) ==
    [m \in 1..(c.shape[1] * c.shape[2]) |->
        IF c.order = "C"
        THEN c.at[<<(m - 1) \div c.shape[2], (m - 1) % c.shape[2]>>]
        ELSE c.at[<<(m - 1) % c.shape[1], (m - 1) \div c.shape[1]>>]]

\* device.create_texture_with_data of a D2 texture: data fills the rows of
\* width texels one after the other, texel (u, v) is column u of row v
create_texture_with_data(width, height, data) ==
    [width  |-> width,
     height |-> height,
     texel  |-> [t \in Index2(<<width, height>>) |-> data[t[2] * width + t[1] + 1]]]

\* Extent3d { width: c.dim().0, height: c.dim().1 } and the data of c
DecayTexture(c) ==
    create_texture_with_data(c.shape[1], c.shape[2], as_slice_memory_order(c))

PmlElectricViews(e_planes) ==
    [f \in DOMAIN e_planes |-> DecayTexture(ParMapCollect(e_planes[f]))]

PmlMagneticViews(h_planes, e_planes) ==
    [f \in DOMAIN h_planes |->
        DecayTexture(ParMapCollect2(h_planes[f], e_planes[f]))]

(***************************************************************************)
(* Importer::load_gltf -> process_node for one model (fdtd/mod.rs          *)
(* 1219-1245, 1622-1761), taken as one step: the flag map, the accumulator *)
(* and both constants arrays once all parallel tasks have joined.  A model *)
(* is [triangles, constants]: the triangles of its mesh primitive in grid  *)
(* coordinates and its MaterialConstants.                                  *)
(***************************************************************************)
load_gltf ==
    /\ raster_pc = "idle"
    /\ loaded < Len(models)
    /\ LET model == models[loaded + 1]
           constants == FDTDConstants_from_material(model.constants)
           flags == Voxelize(model.triangles, importer)
           acc == SweepAccumulator(flags, importer)
       IN  /\ flag_map' = flags
           /\ accumulator' = acc
           /\ electric_constants' =
                  SweepConstants(electric_constants, acc, constants.ec, importer)
           /\ magnetic_constants' =
                  SweepConstants(magnetic_constants, acc, constants.hc, importer)
    /\ loaded' = loaded + 1
    /\ UNCHANGED <<models, ec_map, hc_map, pml_electric_views,
                   pml_magnetic_views, raster_pc, tasks, sweep_z, locks>>
    /\ UNCHANGED <<driverVars, fdtdVars, setupVars, fieldVars, viewVars>>

(***************************************************************************)
(* Importer::into_constants_map (fdtd/mod.rs 1247-1620), called by         *)
(* FDTD::new once every model is loaded.                                   *)
(***************************************************************************)
IntoConstantsMap ==
    /\ raster_pc = "idle"
    /\ loaded = Len(models)
    /\ LET e == ConstantsMap(electric_constants, importer)
           h == ConstantsMap(magnetic_constants, importer)
       IN  IF e.panicked \/ h.panicked
           THEN /\ raster_pc' = "panic"
                /\ UNCHANGED <<ec_map, hc_map, pml_electric_views,
                               pml_magnetic_views>>
           ELSE /\ raster_pc' = "mapped"
                /\ ec_map' = e.map
                /\ hc_map' = h.map
                /\ pml_electric_views' = PmlElectricViews(e.planes)
                /\ pml_magnetic_views' = PmlMagneticViews(h.planes, e.planes)
    /\ UNCHANGED <<models, loaded, electric_constants, magnetic_constants,
                   flag_map, accumulator, tasks, sweep_z, locks>>
    /\ UNCHANGED <<driverVars, fdtdVars, setupVars, fieldVars, viewVars>>

(***************************************************************************)
(* process_node task by task (fdtd/mod.rs 1655-1752).  The voxelization is *)
(* three nested rayon loops, one task per <<triangle, x, y>>; the sweep is *)
(* a sequential loop over z around two nested rayon loops, one task per    *)
(* <<x, y, z>> of the layer in work.  rayon runs the tasks of one loop in  *)
(* any order and the loop returns when all of them have finished.          *)
(***************************************************************************)
BeginPrimitive ==
    /\ raster_pc = "idle"
    /\ loaded < Len(models)
    /\ flag_map' = [c \in InteriorCells(importer) |-> 0]
    /\ tasks' = VoxelTasks(models[loaded + 1].triangles)
    /\ raster_pc' = "voxelize"
    /\ UNCHANGED <<models, loaded, electric_constants, magnetic_constants,
                   accumulator, ec_map, hc_map, pml_electric_views,
                   pml_magnetic_views, sweep_z, locks>>
    /\ UNCHANGED <<driverVars, fdtdVars, setupVars, fieldVars, viewVars>>

\* one innermost closure: *flag_map[[x, y, z]].lock().unwrap() = 1
VoxelTask(t) ==
    /\ raster_pc = "voxelize"
    /\ t \in tasks
    /\ LET writes == VoxelWrites(models[loaded + 1].triangles[t[1]], t[2], t[3],
                                 importer)
       IN  /\ \A c \in writes : <<"flag_map", c>> \notin DOMAIN locks
           /\ flag_map' = [c \in DOMAIN flag_map |->
                              IF c \in writes THEN 1 ELSE flag_map[c]]
    /\ tasks' = tasks \ {t}
    /\ UNCHANGED <<models, loaded, electric_constants, magnetic_constants,
                   accumulator, ec_map, hc_map, pml_electric_views,
                   pml_magnetic_views, raster_pc, sweep_z, locks>>
    /\ UNCHANGED <<driverVars, fdtdVars, setupVars, fieldVars, viewVars>>

\* the tasks the sweep starts for layer z
SweepLayerTasksAll(z, imp) ==
    {<<c[1], c[2], c[3]>> : c \in InteriorCells(imp)}

SweepLayerTasks(z, imp) ==
    {c \in InteriorCells(imp) : c[3] = z}

BeginSweep ==
    /\ raster_pc = "voxelize"
    /\ tasks = {}
    /\ accumulator' = [c \in InteriorCells(importer) |-> 0]
    /\ sweep_z' = 0
    /\ tasks' = SweepLayerTasks(0, importer)
    /\ raster_pc' = "sweep"
    /\ UNCHANGED <<models, loaded, electric_constants, magnetic_constants,
                   flag_map, ec_map, hc_map, pml_electric_views,
                   pml_magnetic_views, locks>>
    /\ UNCHANGED <<driverVars, fdtdVars, setupVars, fieldVars, viewVars>>

\* first half of a sweep closure: take accumulator[[x, y, z]] (held to the
\* end of the closure), copy the flag, add the accumulator cell below
SweepAccumulate(t) ==
    /\ raster_pc = "sweep"
    /\ t \in tasks
    /\ <<"accumulator", t>> \notin DOMAIN locks
    /\ <<"flag_map", t>> \notin DOMAIN locks
    /\ t[3] > 0 => <<"accumulator", <<t[1], t[2], t[3] - 1>>>> \notin DOMAIN locks
    /\ locks' = [m \in DOMAIN locks \cup {<<"accumulator", t>>} |->
                    IF m = <<"accumulator", t>> THEN t ELSE locks[m]]
    /\ accumulator' =
          [accumulator EXCEPT ![t] =
              Accumulate(flag_map[t],
                         IF t[3] > 0 THEN accumulator[<<t[1], t[2], t[3] - 1>>]
                         ELSE 0,
                         t[3])]
    /\ UNCHANGED <<models, loaded, electric_constants, magnetic_constants,
                   flag_map, ec_map, hc_map, pml_electric_views,
                   pml_magnetic_views, raster_pc, tasks, sweep_z>>
    /\ UNCHANGED <<driverVars, fdtdVars, setupVars, fieldVars, viewVars>>

\* second half: on odd parity write both constants cells, then drop the guard
SweepAssign(t) ==
    /\ raster_pc = "sweep"
    /\ t \in tasks
    /\ <<"accumulator", t>> \in DOMAIN locks
    /\ locks[<<"accumulator", t>>] = t
    /\ LET g == ToGrid(t, importer)
           constants == FDTDConstants_from_material(models[loaded + 1].constants)
       IN  IF accumulator[t] % 2 = 1
           THEN /\ <<"electric_constants", g>> \notin DOMAIN locks
                /\ <<"magnetic_constants", g>> \notin DOMAIN locks
                /\ electric_constants' = [electric_constants EXCEPT ![g] = constants.ec]
                /\ magnetic_constants' = [magnetic_constants EXCEPT ![g] = constants.hc]
           ELSE UNCHANGED <<electric_constants, magnetic_constants>>
    /\ locks' = [m \in DOMAIN locks \ {<<"accumulator", t>>} |-> locks[m]]
    /\ tasks' = tasks \ {t}
    /\ UNCHANGED <<models, loaded, flag_map, accumulator, ec_map, hc_map,
                   pml_electric_views, pml_magnetic_views, raster_pc, sweep_z>>
    /\ UNCHANGED <<driverVars, fdtdVars, setupVars, fieldVars, viewVars>>

\* the sequential (0..simulation_z).for_each moves on to the next layer
NextLayer ==
    /\ raster_pc = "sweep"
    /\ tasks = {}
    /\ sweep_z + 1 < SimulationDimension(importer)[3]
    /\ sweep_z' = sweep_z + 1
    /\ tasks' = SweepLayerTasks(sweep_z + 1, importer)
    /\ UNCHANGED <<models, loaded, electric_constants, magnetic_constants,
                   flag_map, accumulator, ec_map, hc_map, pml_electric_views,
                   pml_magnetic_views, raster_pc, locks>>
    /\ UNCHANGED <<driverVars, fdtdVars, setupVars, fieldVars, viewVars>>

EndPrimitive ==
    /\ raster_pc = "sweep"
    /\ tasks = {}
    /\ sweep_z + 1 >= SimulationDimension(importer)[3]
    /\ loaded' = loaded + 1
    /\ raster_pc' = "idle"
    /\ UNCHANGED <<models, electric_constants, magnetic_constants, flag_map,
                   accumulator, ec_map, hc_map, pml_electric_views,
                   pml_magnetic_views, tasks, sweep_z, locks>>
    /\ UNCHANGED <<driverVars, fdtdVars, setupVars, fieldVars, viewVars>>

(***************************************************************************)
(* The GPU side of a tick.  The compute shaders (shader/fdtd/*.wgsl) are   *)
(* modelled from their description: Yee curl updates with the boundary     *)
(* rule selected by use_pmc, and additive source injection.  Field values  *)
(* are integers and every coefficient is 1.                                *)
(***************************************************************************)
InGrid(c, g) == \A a \in 1..3 : c[a] >= 0 /\ c[a] < g[a]

OnExterior(c, g) == \E a \in 1..3 : c[a] = 0 \/ c[a] = g[a] - 1

\* a texel read; reads outside the texture give 0
Texel(tex, c, g) == IF InGrid(c, g) THEN tex[c] ELSE 0

Neighbour(c, a, d) == [c EXCEPT ![a] = @ + d]

NextAxis(a) == (a % 3) + 1

\* the cells the invocations of a dispatch cover
InvokedCells(dispatch, w, g) ==
    {c \in Box(<<0, 0, 0>>, g) :
        \A a \in 1..3 : c[a] < dispatch.workgroups[a] * w[a]}

\* electric update kernel: on the exterior PEC forces E = 0 and PMC leaves E
\* unchanged; elsewhere E_a += (H_c[i] - H_c[i - e_b]) - (H_b[i] - H_b[i - e_c])
UpdateElectricKernel(E, H, dispatch, w) ==
    LET g == <<dispatch.push[1], dispatch.push[2], dispatch.push[3]>>
        pmc == dispatch.push[4]
        cells == InvokedCells(dispatch, w, g)
    IN  [a \in 1..3 |->
            LET b == NextAxis(a)
                cc == NextAxis(b)
            IN  [c \in DOMAIN E[a] |->
                    IF c \notin cells THEN E[a][c]
                    ELSE IF OnExterior(c, g)
                    THEN (IF pmc = 1 THEN E[a][c] ELSE 0)
                    ELSE E[a][c]
                         + (Texel(H[cc], c, g) - Texel(H[cc], Neighbour(c, b, -1), g))
                         - (Texel(H[b], c, g) - Texel(H[b], Neighbour(c, cc, -1), g))]]

\* magnetic update kernel, roles swapped: on the exterior PMC forces H = 0 and
\* PEC leaves H unchanged; elsewhere
\* H_a -= (E_c[i + e_b] - E_c[i]) - (E_b[i + e_c] - E_b[i])
UpdateMagneticKernel(H, E, dispatch, w) ==
    LET g == <<dispatch.push[1], dispatch.push[2], dispatch.push[3]>>
        pmc == dispatch.push[4]
        cells == InvokedCells(dispatch, w, g)
    IN  [a \in 1..3 |->
            LET b == NextAxis(a)
                cc == NextAxis(b)
            IN  [c \in DOMAIN H[a] |->
                    IF c \notin cells THEN H[a][c]
                    ELSE IF OnExterior(c, g)
                    THEN (IF pmc = 1 THEN 0 ELSE H[a][c])
                    ELSE H[a][c]
                         - (Texel(E[cc], Neighbour(c, b, 1), g) - Texel(E[cc], c, g))
                         + (Texel(E[b], Neighbour(c, cc, 1), g) - Texel(E[b], c, g))]]

\* injection kernel: adds the source's strength (1 on x, 0 on y and z) to the
\* field in the source's box, here the cell in the middle of the grid
ExciteKernel(F, g) ==
    LET position == <<g[1] \div 2, g[2] \div 2, g[3] \div 2>>
    IN  [a \in 1..3 |->
            [c \in DOMAIN F[a] |->
                IF a = 1 /\ c = position THEN F[a][c] + 1 ELSE F[a][c]]]

\* the textures after the commands of an encoder have run in order
RECURSIVE Execute(_, _)
Execute(commands, textures) ==
    IF commands = <<>> THEN textures
    ELSE LET c == Head(commands)
             after ==
                 IF c.op = "update_magnetic_field"
                 THEN [textures EXCEPT !.h =
                          UpdateMagneticKernel(textures.h, textures.e,
                                               MainDispatch("magnetic"),
                                               workgroup_dispatch)]
                 ELSE IF c.op = "update_electric_field"
                 THEN [textures EXCEPT !.e =
                          UpdateElectricKernel(textures.e, textures.h,
                                               MainDispatch("electric"),
                                               workgroup_dispatch)]
                 ELSE IF c.op \in {"excite_magnetic_field_volume",
                                   "excite_magnetic_field_mode"}
                 THEN [textures EXCEPT !.h = ExciteKernel(textures.h, grid_dimension)]
                 ELSE [textures EXCEPT !.e = ExciteKernel(textures.e, grid_dimension)]
         IN  Execute(Tail(commands), after)

\* one executed tick with its encoder submitted (main.rs 918-1082, 1285) and
\* run by the GPU, without PML and with empty pause and export schedules
ExecuteTick ==
    /\ pc = "run"
    /\ boundary.type # "PML"
    /\ step_counter < MaxStep
    /\ ~paused
    /\ LET commands == TickCommands(step_counter, magnetic_sources, electric_sources)
           after == Execute(commands, [e |-> electric_field_texture,
                                       h |-> magnetic_field_texture])
       IN  /\ encoder' = commands
           /\ electric_field_texture' = after.e
           /\ magnetic_field_texture' = after.h
    /\ step_counter' = step_counter + 1
    /\ queue' = queue \o TickSubmission(step_counter + 1)
    /\ last' = "tick"
    /\ UNCHANGED <<temporal_step, tau, pause_at, exports, magnetic_sources,
                   electric_sources, paused, elapsed, consumed, cfg_pause_at,
                   cfg_exports, cfg_sources, files, stderr, map_errors,
                   copy_buffers>>
    /\ UNCHANGED <<fdtdVars, setupVars, rasterVars, viewVars>>

(***************************************************************************)
(* Presets explored.  Entries get their id from their position.            *)
(***************************************************************************)
WithIds(list) == [i \in 1..Len(list) |-> [list[i] EXCEPT !.id = i]]

PauseChoices ==
    {[kind |-> "step", value |-> 0, id |-> 0],
     [kind |-> "step", value |-> 1, id |-> 0],
     [kind |-> "time", value |-> 3, id |-> 0]}

ExportChoices ==
    {[kind |-> "step", value |-> 1, id |-> 0, dimension |-> "D3", field |-> "E"],
     [kind |-> "time", value |-> 3, id |-> 0, dimension |-> "D2", field |-> "H"]}

VolE == [mode |-> "volume", e |-> TRUE, h |-> FALSE, id |-> 0]

VolH == [mode |-> "volume", e |-> FALSE, h |-> TRUE, id |-> 0]

TexE == [mode |-> "texture", e |-> TRUE, h |-> FALSE, id |-> 0]

TexH == [mode |-> "texture", e |-> FALSE, h |-> TRUE, id |-> 0]

TexEH == [mode |-> "texture", e |-> TRUE, h |-> TRUE, id |-> 0]

SourceLists ==
    {<<>>, <<VolE, VolH, TexEH, VolH>>, <<TexH, TexE, VolE>>}

DeltaChoices == 0..2

(***************************************************************************)
(* State after construction (main.rs 388-461, 536-757, 806-819).           *)
(***************************************************************************)
\* no model is being rasterized
InitRasterIdle ==
    /\ models = <<>>
    /\ loaded = 0
    /\ electric_constants = <<>>
    /\ magnetic_constants = <<>>
    /\ flag_map = <<>>
    /\ accumulator = <<>>
    /\ ec_map = <<>>
    /\ hc_map = <<>>
    /\ pml_electric_views = <<>>
    /\ pml_magnetic_views = <<>>
    /\ raster_pc = "idle"
    /\ tasks = {}
    /\ sweep_z = 0
    /\ locks = <<>>

InitDriver ==
    /\ temporal_step = 2
    /\ tau = 2
    /\ \E raw \in SeqsUpTo(PauseChoices, MaxLen) :
          /\ cfg_pause_at = WithIds(raw)
          /\ pause_at = SortByKey(WithIds(raw), temporal_step)
    /\ \E raw \in SeqsUpTo(ExportChoices, MaxLen) :
          /\ cfg_exports = WithIds(raw)
          /\ exports = SortByKey(WithIds(raw), temporal_step)
    /\ \E raw \in SourceLists :
          /\ cfg_sources = WithIds(raw)
          /\ magnetic_sources = MagneticSourcesOf(WithIds(raw))
          /\ electric_sources = ElectricSourcesOf(WithIds(raw))
    /\ step_counter = 0
    /\ paused = FALSE
    /\ elapsed = 0
    /\ encoder = <<>>
    /\ queue = <<>>
    /\ consumed = <<>>
    /\ last = "init"
    /\ files = <<>>
    /\ stderr = <<>>
    /\ map_errors = {}
    /\ copy_buffers = <<>>

UnitDomain(s) == [a \in 1..3 |-> <<0, s[a]>>]

InitFdtdIdle == Constructed(UnitDomain(<<1, 1, 1>>), 1, PEC, <<1, 1, 1>>)

InitDriverIdle ==
    /\ temporal_step = 2
    /\ tau = 2
    /\ cfg_pause_at = <<>>
    /\ pause_at = <<>>
    /\ cfg_exports = <<>>
    /\ exports = <<>>
    /\ cfg_sources = <<>>
    /\ magnetic_sources = <<>>
    /\ electric_sources = <<>>
    /\ step_counter = 0
    /\ paused = FALSE
    /\ elapsed = 0
    /\ encoder = <<>>
    /\ queue = <<>>
    /\ consumed = <<>>
    /\ last = "init"
    /\ files = <<>>
    /\ stderr = <<>>
    /\ map_errors = {}
    /\ copy_buffers = <<>>

Boundaries == {PEC, PMC} \cup {PML(c) : c \in 1..MaxCells}

Extents == (1..MaxSim) \X (1..MaxSim) \X (1..MaxSim)

WorkgroupChoices == {<<1, 1, 1>>, <<2, 2, 2>>, <<4, 2, 1>>}

\* grids with an interior or a halo of more than PMLWorkgroup cells
WideGrids == {<<<<9, 2, 17>>, PML(1)>>, <<<<1, 2, 1>>, PML(9)>>}

InitFdtd ==
    \/ \E s \in Extents, b \in Boundaries, w \in WorkgroupChoices :
          Constructed(UnitDomain(s), 1, b, w)
    \/ \E sb \in WideGrids, w \in WorkgroupChoices :
          Constructed(UnitDomain(sb[1]), 1, sb[2], w)

\* every map-read of this run succeeds
DeviceOk == [failed |-> {}, build |-> "release"]

Init == InitDriver /\ InitFdtdIdle /\ InitRasterIdle

Next ==
    \/ \E d \in DeltaChoices, surf \in SurfaceResults :
          RedrawRequested(d, surf, DeviceOk)
    \/ TogglePause

Spec == Init /\ [][Next]_vars

(***************************************************************************)
(* The half-steps on their own, over every grid and boundary explored.     *)
(***************************************************************************)
InitHalfStep == InitDriverIdle /\ InitFdtd /\ InitRasterIdle

NextHalfStep == FDTD_update_magnetic_field \/ FDTD_update_electric_field

SpecHalfStep == InitHalfStep /\ [][NextHalfStep]_vars

(***************************************************************************)
(* Ticks with scheduled exports on a device whose map-reads may fail, in   *)
(* either build, over grids whose rows need padding or not and one grid    *)
(* whose copy buffer reaches 2^32 bytes.  Field contents are not tracked.  *)
(***************************************************************************)
ExportSchedule ==
    {[kind |-> "step", value |-> 1, id |-> 0, dimension |-> "D3", field |-> "E"],
     [kind |-> "step", value |-> 2, id |-> 0, dimension |-> "D3", field |-> "H"],
     [kind |-> "step", value |-> 1, id |-> 0, dimension |-> "D2", field |-> "H"]}

ExportExtents ==
    {<<3, 2, 2>>, <<64, 2, 3>>, <<65, 1, 2>>, <<1024, 1024, 1024>>}

\* the state right after a successful FDTD::new, texture contents left out
ConstructedUntracked(dimension, dx, b, w) ==
    LET f == FDTD_new(dimension, dx, b, w)
    IN  /\ ~f.panicked
        /\ pc = "run"
        /\ init_error = ""
        /\ no_visual = FALSE
        /\ panic_message = ""
        /\ domain = dimension
        /\ spatial_step = dx
        /\ boundary = f.boundary
        /\ grid_dimension = f.grid_dimension
        /\ workgroup_dispatch = f.workgroup_dispatch
        /\ pml = f.pml
        /\ shift_vector = f.shift_vector
        /\ field_texture_size = f.field_texture_size
        /\ constants_map_size = f.constants_map_size
        /\ importer = f.importer
        /\ cpass = <<>>
        /\ electric_field_texture = <<>>
        /\ magnetic_field_texture = <<>>
        /\ ViewUntracked

InitExport ==
    /\ temporal_step = 2
    /\ tau = 2
    /\ cfg_pause_at = <<>>
    /\ pause_at = <<>>
    /\ \E raw \in SeqsUpTo(ExportSchedule, MaxLen) :
          /\ cfg_exports = WithIds(raw)
          /\ exports = SortByKey(WithIds(raw), temporal_step)
    /\ cfg_sources = <<>>
    /\ magnetic_sources = <<>>
    /\ electric_sources = <<>>
    /\ step_counter = 0
    /\ paused = FALSE
    /\ elapsed = 0
    /\ encoder = <<>>
    /\ queue = <<>>
    /\ consumed = <<>>
    /\ last = "init"
    /\ files = <<>>
    /\ stderr = <<>>
    /\ map_errors = {}
    /\ copy_buffers = <<>>
    /\ \E s \in ExportExtents :
          ConstructedUntracked(UnitDomain(s), 1, PEC, <<1, 1, 1>>)
    /\ InitRasterIdle

NextExport ==
    \E d \in DeltaChoices, surf \in SurfaceResults, build \in Builds,
       failed \in SUBSET {exports[i].id : i \in DOMAIN exports} :
          RedrawRequested(d, surf, [failed |-> failed, build |-> build])

SpecExport == InitExport /\ [][NextExport]_vars

(***************************************************************************)
(* The injection of volume sources on their own: one source per list, its  *)
(* box aligned to the cells or not, inside the domain or reaching out of   *)
(* it, on grids with and without a PML halo.                               *)
(***************************************************************************)
\* <<position in halves, size>> along one axis
SourceAxisChoices ==
    {<<1, 0>>, <<2, 2>>, <<3, 1>>, <<4, 0>>, <<4, 3>>, <<-1, 3>>, <<5, 3>>}

VolumeSources(field) ==
    {[mode |-> "volume", e |-> (field = "electric"), h |-> (field = "magnetic"),
      id |-> 1,
      position |-> <<c[1][1], c[2][1], c[3][1]>>,
      size |-> <<c[1][2], c[2][2], c[3][2]>>] :
        c \in SourceAxisChoices \X SourceAxisChoices \X SourceAxisChoices}

SourceGrids ==
    {<<UnitDomain(<<2, 2, 2>>), 1, PEC>>,
     <<UnitDomain(<<2, 4, 3>>), 2, PML(1)>>,
     <<[a \in 1..3 |-> <<-1, 2>>], 1, PML(2)>>}

InitSource ==
    /\ temporal_step = 2
    /\ tau = 2
    /\ cfg_pause_at = <<>>
    /\ pause_at = <<>>
    /\ cfg_exports = <<>>
    /\ exports = <<>>
    /\ \E field \in {"electric", "magnetic"} :
          \E src \in VolumeSources(field) :
              /\ cfg_sources = <<src>>
              /\ magnetic_sources = MagneticSourcesOf(<<src>>)
              /\ electric_sources = ElectricSourcesOf(<<src>>)
    /\ step_counter = 0
    /\ paused = FALSE
    /\ elapsed = 0
    /\ encoder = <<>>
    /\ queue = <<>>
    /\ consumed = <<>>
    /\ last = "init"
    /\ files = <<>>
    /\ stderr = <<>>
    /\ map_errors = {}
    /\ copy_buffers = <<>>
    /\ \E gr \in SourceGrids, w \in WorkgroupChoices :
          ConstructedUntracked(gr[1], gr[2], gr[3], w)
    /\ InitRasterIdle

NextSource ==
    \/ FDTD_excite_magnetic_field_volume
    \/ FDTD_excite_electric_field_volume

SpecSource == InitSource /\ [][NextSource]_vars

(***************************************************************************)
(* The slice view on its own: the FDTD as constructed from a default       *)
(* slice, then the calls of the keyboard and mouse wheel handlers          *)
(* (main.rs 835-893).  Grids have two cells or more on every axis.         *)
(***************************************************************************)
DefaultSlices ==
    {[field |-> "E", mode |-> m, position |-> p] :
        m \in {"X", "Y", "Z"}, p \in -1..3}

DefaultScalingFactors ==
    {[mantissa |-> 1, exponent |-> 0], [mantissa |-> 25, exponent |-> -1]}

ViewGrids ==
    {<<UnitDomain(<<2, 3, 2>>), 1, PEC>>,
     <<UnitDomain(<<1, 2, 1>>), 1, PML(1)>>,
     <<UnitDomain(<<3, 4, 4>>), 2, PMC>>}

InitView ==
    /\ InitDriverIdle
    /\ InitRasterIdle
    /\ \E gr \in ViewGrids, ds \in DefaultSlices, sc \in DefaultScalingFactors :
          LET f == FDTD_new(gr[1], gr[2], gr[3], <<2, 2, 2>>)
          IN  /\ ~f.panicked
              /\ pc = "run"
              /\ init_error = ""
              /\ no_visual = FALSE
              /\ panic_message = ""
              /\ domain = gr[1]
              /\ spatial_step = gr[2]
              /\ boundary = f.boundary
              /\ grid_dimension = f.grid_dimension
              /\ workgroup_dispatch = f.workgroup_dispatch
              /\ pml = f.pml
              /\ shift_vector = f.shift_vector
              /\ field_texture_size = f.field_texture_size
              /\ constants_map_size = f.constants_map_size
              /\ importer = f.importer
              /\ cpass = <<>>
              /\ electric_field_texture = <<>>
              /\ magnetic_field_texture = <<>>
              /\ slice_position = slice_position_new(ds, f.shift_vector,
                                                     f.grid_dimension, gr[2])
              /\ slice_mode = ds.mode
              /\ field_view_mode = ds.field
              /\ scaling_factor = sc

NextView ==
    \/ \E row_delta \in {-1, 1} : FDTD_offset_slice_position(row_delta)
    \/ \E mode \in {"X", "Y", "Z"} : FDTD_set_slice_mode(mode)
    \/ \E mode \in {"E", "H"} : FDTD_set_field_view_mode(mode)
    \/ \E delta \in {-1, 1} : FDTD_scale_linear(delta)
    \/ \E delta_exp \in {-1, 1} : FDTD_scale_exponential(delta_exp)

SpecView == InitView /\ [][NextView]_vars

(***************************************************************************)
(* The kernels of a tick with the bind groups they set: the two            *)
(* half-steps and the injections of a texture source and of volume         *)
(* sources, over every grid and boundary explored.                         *)
(***************************************************************************)
BoundSources ==
    <<[mode |-> "texture", e |-> TRUE, h |-> TRUE, id |-> 1, z_layer |-> 0],
      [mode |-> "volume", e |-> TRUE, h |-> FALSE, id |-> 2,
       position |-> <<1, 1, 1>>, size |-> <<1, 0, 1>>],
      [mode |-> "volume", e |-> FALSE, h |-> TRUE, id |-> 3,
       position |-> <<2, 1, 0>>, size |-> <<0, 1, 1>>]>>

InitBind ==
    /\ temporal_step = 2
    /\ tau = 2
    /\ cfg_pause_at = <<>>
    /\ pause_at = <<>>
    /\ cfg_exports = <<>>
    /\ exports = <<>>
    /\ cfg_sources = BoundSources
    /\ magnetic_sources = MagneticSourcesOf(BoundSources)
    /\ electric_sources = ElectricSourcesOf(BoundSources)
    /\ step_counter = 0
    /\ paused = FALSE
    /\ elapsed = 0
    /\ encoder = <<>>
    /\ queue = <<>>
    /\ consumed = <<>>
    /\ last = "init"
    /\ files = <<>>
    /\ stderr = <<>>
    /\ map_errors = {}
    /\ copy_buffers = <<>>
    /\ InitFdtd
    /\ InitRasterIdle

NextBind ==
    \/ FDTD_update_magnetic_field
    \/ FDTD_excite_magnetic_field_mode
    \/ FDTD_excite_magnetic_field_volume
    \/ FDTD_update_electric_field
    \/ FDTD_excite_electric_field_mode
    \/ FDTD_excite_electric_field_volume

SpecBind == InitBind /\ [][NextBind]_vars

(***************************************************************************)
(* Ticks with the fields they leave: grids without PML, with and without   *)
(* sources, schedules empty.                                               *)
(***************************************************************************)
FieldExtents == (1..(MaxSim + 1)) \X (1..(MaxSim + 1)) \X (1..(MaxSim + 1))

InitFields ==
    /\ temporal_step = 2
    /\ tau = 2
    /\ cfg_pause_at = <<>>
    /\ pause_at = <<>>
    /\ cfg_exports = <<>>
    /\ exports = <<>>
    /\ \E raw \in SourceLists :
          /\ cfg_sources = WithIds(raw)
          /\ magnetic_sources = MagneticSourcesOf(WithIds(raw))
          /\ electric_sources = ElectricSourcesOf(WithIds(raw))
    /\ step_counter = 0
    /\ paused = FALSE
    /\ elapsed = 0
    /\ encoder = <<>>
    /\ queue = <<>>
    /\ consumed = <<>>
    /\ last = "init"
    /\ files = <<>>
    /\ stderr = <<>>
    /\ map_errors = {}
    /\ copy_buffers = <<>>
    /\ \E s \in FieldExtents, b \in {PEC, PMC}, w \in WorkgroupChoices :
          Constructed(UnitDomain(s), 1, b, w)
    /\ InitRasterIdle

NextFields == ExecuteTick

SpecFields == InitFields /\ [][NextFields]_vars

(***************************************************************************)
(* The rasterizer on its own: models loaded one after the other into the   *)
(* Importer of a grid with interior RasterExtent, then the constants maps. *)
(* Meshes are given in interior coordinates and moved by the halo          *)
(* thickness, as the shift vector moves them (fdtd/mod.rs 1232-1233).      *)
(***************************************************************************)
Triangle(a, b, c) == <<a, b, c>>

\* closed tetrahedron with three faces in the coordinate planes
Tetrahedron ==
    <<Triangle(<<0, 0, 0>>, <<2, 0, 0>>, <<0, 2, 0>>),
      Triangle(<<0, 0, 0>>, <<2, 0, 0>>, <<0, 0, 2>>),
      Triangle(<<0, 0, 0>>, <<0, 2, 0>>, <<0, 0, 2>>),
      Triangle(<<2, 0, 0>>, <<0, 2, 0>>, <<0, 0, 2>>)>>

\* closed box [lo, hi]: bottom, top and the four sides, two triangles each
BoxMesh(lo, hi) ==
    LET v(i, j, k) == <<IF i = 0 THEN lo[1] ELSE hi[1],
                        IF j = 0 THEN lo[2] ELSE hi[2],
                        IF k = 0 THEN lo[3] ELSE hi[3]>>
    IN  <<Triangle(v(0, 0, 0), v(1, 0, 0), v(0, 1, 0)),
          Triangle(v(1, 1, 0), v(1, 0, 0), v(0, 1, 0)),
          Triangle(v(0, 0, 1), v(1, 0, 1), v(0, 1, 1)),
          Triangle(v(1, 1, 1), v(1, 0, 1), v(0, 1, 1)),
          Triangle(v(0, 0, 0), v(1, 0, 0), v(0, 0, 1)),
          Triangle(v(1, 0, 1), v(1, 0, 0), v(0, 0, 1)),
          Triangle(v(0, 1, 0), v(1, 1, 0), v(0, 1, 1)),
          Triangle(v(1, 1, 1), v(1, 1, 0), v(0, 1, 1)),
          Triangle(v(0, 0, 0), v(0, 1, 0), v(0, 0, 1)),
          Triangle(v(0, 1, 1), v(0, 1, 0), v(0, 0, 1)),
          Triangle(v(1, 0, 0), v(1, 1, 0), v(1, 0, 1)),
          Triangle(v(1, 1, 1), v(1, 1, 0), v(1, 0, 1))>>

\* a single slanted triangle: an open mesh
OpenTriangle == <<Triangle(<<0, 0, 0>>, <<2, 0, 1>>, <<0, 2, 1>>)>>

\* two triangles over the same columns, one above the other
Wedge ==
    <<Triangle(<<0, 0, 0>>, <<1, 0, 0>>, <<0, 1, 0>>),
      Triangle(<<0, 0, 1>>, <<1, 0, 1>>, <<0, 1, 1>>)>>

\* the two halves of a unit square, sharing its diagonal
Square ==
    <<Triangle(<<0, 0, 0>>, <<1, 0, 0>>, <<0, 1, 0>>),
      Triangle(<<1, 1, 0>>, <<1, 0, 0>>, <<0, 1, 0>>)>>

MoveMesh(triangles, half) ==
    [i \in 1..Len(triangles) |->
        [k \in 1..3 |-> <<triangles[i][k][1] + half, triangles[i][k][2] + half,
                          triangles[i][k][3] + half>>]]

Model(triangles, n) == [triangles |-> triangles, constants |-> ModelMaterial(n)]

MeshChoices ==
    {Model(Tetrahedron, 2),
     Model(BoxMesh(<<0, 0, 0>>, <<1, 1, 2>>), 2),
     Model(BoxMesh(<<1, 0, 0>>, <<2, 1, 3>>), 3),
     Model(OpenTriangle, 3)}

ParMeshChoices == {Model(Wedge, 2), Model(Square, 3)}

RasterExtent == <<3, 3, 4>>

ParExtent == <<2, 2, 3>>

RasterBoundaries == {PEC} \cup {PML(c) : c \in 1..MaxCells}

ParBoundaries == {PEC, PML(1)}

\* inside FDTD::new, after Importer::new(dimension, dt, dx, background, ...)
InitImporter(extent, b, choices) ==
    /\ InitDriverIdle
    /\ pc = "checked"
    /\ init_error = ""
    /\ no_visual = FALSE
    /\ panic_message = ""
    /\ spatial_step = 1
    /\ domain = UnitDomain(extent)
    /\ boundary = b
    /\ workgroup_dispatch = <<2, 2, 2>>
    /\ grid_dimension = <<0, 0, 0>>
    /\ pml = NoPML
    /\ shift_vector = <<0, 0, 0>>
    /\ field_texture_size = <<>>
    /\ constants_map_size = <<>>
    /\ cpass = <<>>
    /\ importer = Importer_new(UnitDomain(extent), 1, ImporterExtent(b))
    /\ \E raw \in SeqsUpTo(choices, MaxLen) :
          models = [i \in 1..Len(raw) |->
                       [raw[i] EXCEPT !.triangles =
                           MoveMesh(raw[i].triangles, b.cells)]]
    /\ loaded = 0
    /\ electric_constants =
          [g \in Box(<<0, 0, 0>>, importer.grid_dimension) |->
              FDTDConstants_from_material(Background).ec]
    /\ magnetic_constants =
          [g \in Box(<<0, 0, 0>>, importer.grid_dimension) |->
              FDTDConstants_from_material(Background).hc]
    /\ flag_map = <<>>
    /\ accumulator = <<>>
    /\ ec_map = <<>>
    /\ hc_map = <<>>
    /\ pml_electric_views = <<>>
    /\ pml_magnetic_views = <<>>
    /\ raster_pc = "idle"
    /\ tasks = {}
    /\ sweep_z = 0
    /\ locks = <<>>
    /\ electric_field_texture = <<>>
    /\ magnetic_field_texture = <<>>
    /\ ViewUntracked

InitRaster == \E b \in RasterBoundaries : InitImporter(RasterExtent, b, MeshChoices)

NextRaster == load_gltf \/ IntoConstantsMap

SpecRaster == InitRaster /\ [][NextRaster]_vars

InitRasterPar == \E b \in ParBoundaries : InitImporter(ParExtent, b, ParMeshChoices)

NextRasterPar ==
    \/ BeginPrimitive
    \/ \E t \in tasks : VoxelTask(t)
    \/ BeginSweep
    \/ \E t \in tasks : SweepAccumulate(t)
    \/ \E t \in tasks : SweepAssign(t)
    \/ NextLayer
    \/ EndPrimitive
    \/ IntoConstantsMap

SpecRasterPar == InitRasterPar /\ [][NextRasterPar]_vars

(***************************************************************************)
(* Initialization on its own: the settings as loaded, the domain checks,   *)
(* FDTD::new, then half-steps on the constructed grid.  A domain axis is   *)
(* <<min, max>> with a span from -1 (max < min) up to MaxSim cells; a      *)
(* boundary descriptor may carry cells = 0.                                *)
(***************************************************************************)
SpatialSteps == {1, 2}

Origins == {<<0, 0, 0>>, <<-1, 0, 1>>}

Spans(dx) == -1..(dx * MaxSim)

DomainChoices(dx) ==
    {[a \in 1..3 |-> <<o[a], o[a] + sp[a]>>] :
        o \in Origins, sp \in Spans(dx) \X Spans(dx) \X Spans(dx)}

SetupBoundaries == {PEC, PMC} \cup {PML(c) : c \in 0..MaxCells}

\* the settings of a headless start: a pause schedule that is empty or not
HeadlessPauses == {<<>>, <<[kind |-> "step", value |-> 1, id |-> 0]>>}

HeadlessExports ==
    {<<>>, <<[kind |-> "step", value |-> 1, id |-> 0, dimension |-> "D3",
              field |-> "E"]>>}

InitDriverHeadless ==
    /\ temporal_step = 2
    /\ tau = 2
    /\ \E raw \in HeadlessPauses :
          /\ cfg_pause_at = WithIds(raw)
          /\ pause_at = SortByKey(WithIds(raw), temporal_step)
    /\ \E raw \in HeadlessExports :
          /\ cfg_exports = WithIds(raw)
          /\ exports = SortByKey(WithIds(raw), temporal_step)
    /\ cfg_sources = <<>>
    /\ magnetic_sources = <<>>
    /\ electric_sources = <<>>
    /\ step_counter = 0
    /\ paused = FALSE
    /\ elapsed = 0
    /\ encoder = <<>>
    /\ queue = <<>>
    /\ consumed = <<>>
    /\ last = "init"
    /\ files = <<>>
    /\ stderr = <<>>
    /\ map_errors = {}
    /\ copy_buffers = <<>>

InitSetup ==
    /\ \/ no_visual = FALSE /\ InitDriverIdle
       \/ no_visual = TRUE /\ InitDriverHeadless
    /\ panic_message = ""
    /\ ViewUntracked
    /\ InitRasterIdle
    /\ electric_field_texture = <<>>
    /\ magnetic_field_texture = <<>>
    /\ pc = "load"
    /\ init_error = ""
    /\ spatial_step \in SpatialSteps
    /\ domain \in DomainChoices(spatial_step)
    /\ boundary \in SetupBoundaries
    /\ workgroup_dispatch = <<2, 2, 2>>
    /\ grid_dimension = <<0, 0, 0>>
    /\ pml = NoPML
    /\ shift_vector = <<0, 0, 0>>
    /\ field_texture_size = <<>>
    /\ constants_map_size = <<>>
    /\ importer = NoImporter
    /\ cpass = <<>>

NextSetup ==
    \/ DomainChecks
    \/ ConstructFDTD
    \/ HeadlessStart
    \/ FDTD_update_magnetic_field
    \/ FDTD_update_electric_field

SpecSetup == InitSetup /\ [][NextSetup]_vars

(***************************************************************************)
(* Properties of the driver, checked under Spec.                           *)
(***************************************************************************)
ExecutedTick == last \in {"tick", "skip", "reconfigure"}

Resolved(list) == {ResolveStep(list[i], temporal_step) : i \in 1..Len(list)}

IdsOf(list, Test(_)) == {list[i].id : i \in {j \in 1..Len(list) : Test(list[j])}}

MagneticOps == {"excite_magnetic_field_mode", "excite_magnetic_field_volume"}

ElectricOps == {"excite_electric_field_mode", "excite_electric_field_volume"}

Positions(seq, Test(_)) == {i \in 1..Len(seq) : Test(seq[i])}

\* C1: the encoder of every executed tick holds the H-update, then one
\* injection per magnetic source in declaration order, then the E-update,
\* then one injection per electric source in declaration order, all of them
\* issued with the step counter not yet incremented; no injection precedes
\* the update kernel of its own field kind.
C1_TickOrder ==
    encoder # <<>> =>
        LET m == Cardinality(IdsOf(cfg_sources, LAMBDA x : x.h))
            e == Cardinality(IdsOf(cfg_sources, LAMBDA x : x.e))
            hUpd == Positions(encoder, LAMBDA c : c.op = "update_magnetic_field")
            eUpd == Positions(encoder, LAMBDA c : c.op = "update_electric_field")
            hInj == Positions(encoder, LAMBDA c : c.op \in MagneticOps)
            eInj == Positions(encoder, LAMBDA c : c.op \in ElectricOps)
        IN  /\ Len(encoder) = m + e + 2
            /\ hUpd = {1}
            /\ hInj = 2..(m + 1)
            /\ eUpd = {m + 2}
            /\ eInj = (m + 3)..(m + e + 2)
            /\ {encoder[i].src : i \in hInj} = IdsOf(cfg_sources, LAMBDA x : x.h)
            /\ {encoder[i].src : i \in eInj} = IdsOf(cfg_sources, LAMBDA x : x.e)
            /\ \A i, j \in hInj : i < j => encoder[i].src < encoder[j].src
            /\ \A i, j \in eInj : i < j => encoder[i].src < encoder[j].src
            /\ \A i \in hInj : (encoder[i].op = "excite_magnetic_field_mode")
                                 <=> (cfg_sources[encoder[i].src].mode = "texture")
            /\ \A i \in eInj : (encoder[i].op = "excite_electric_field_mode")
                                 <=> (cfg_sources[encoder[i].src].mode = "texture")
            /\ \A i \in 1..Len(encoder) : encoder[i].n = step_counter - 1

C1_Witness ==
    /\ last = "tick"
    /\ step_counter = 2
    /\ Len(magnetic_sources) = 3
    /\ Len(electric_sources) = 2
    /\ Len(encoder) = 7

\* C2: every schedule entry is consumed exactly once, at the tick after which
\* the step counter equals its resolved step, in ascending resolved-step
\* order, and after any tick no remaining entry of either schedule resolves
\* to a step less than or equal to the step counter.
C2_ScheduleConsumed ==
    LET cfg(c) == IF c.sched = "pause" THEN cfg_pause_at[c.id] ELSE cfg_exports[c.id]
    IN  /\ \A i \in 1..Len(consumed) :
              consumed[i].at = ResolveStep(cfg(consumed[i]), temporal_step)
        /\ \A i, j \in 1..Len(consumed) :
              (i < j /\ consumed[i].sched = consumed[j].sched)
                  => /\ consumed[i].at <= consumed[j].at
                     /\ consumed[i].id # consumed[j].id
        /\ step_counter > 0 =>
              /\ \A i \in 1..Len(pause_at) :
                    ResolveStep(pause_at[i], temporal_step) > step_counter
              /\ \A i \in 1..Len(exports) :
                    ResolveStep(exports[i], temporal_step) > step_counter

\* C3: the tick that reaches step n leaves the driver paused if and only if
\* some pause_at entry of the preset resolves to n.
C3_PauseIffScheduled ==
    ExecutedTick => (paused <=> step_counter \in Resolved(cfg_pause_at))

\* C4: the step counter equals the number of ticks whose field-update
\* command buffer was submitted to the GPU queue (a tick skipped on a
\* surface error does not advance it).
C4_StepCountsSubmittedTicks ==
    step_counter = Cardinality(Positions(queue, LAMBDA q : q.kind = "tick"))

\* C5: the copy of an export triggered at step n reaches the GPU queue after
\* the field updates of tick n.
C5_ExportAfterTick ==
    \A i \in 1..Len(queue) :
        queue[i].kind = "export" =>
            \E j \in 1..(i - 1) : queue[j].kind = "tick" /\ queue[j].step = queue[i].step

\* C6: while the driver is paused no event executes a tick (step counter,
\* both schedules, recorded kernels and GPU queue stay as they are), and
\* the step that resumes resets the clock accumulator to zero.
C6_PausedHaltsTicks ==
    [][/\ paused => /\ step_counter' = step_counter
                    /\ pause_at' = pause_at
                    /\ exports' = exports
                    /\ encoder' = encoder
                    /\ queue' = queue
       /\ (paused /\ ~paused') => elapsed' = 0]_vars

C6_Witness ==
    /\ last = "halted"
    /\ paused
    /\ step_counter > 0
    /\ pause_at # <<>>
    /\ exports # <<>>

(***************************************************************************)
(* Properties of the half-steps, checked under SpecHalfStep.               *)
(***************************************************************************)
Fields == {"electric", "magnetic"}

Regions ==
    UNION {{<<Shapes[k], idx>> : idx \in 0..(RegionCount(Shapes[k]) - 1)}
           : k \in 1..Len(Shapes)}

UnderPML == boundary.type = "PML" /\ cpass # <<>>

PMLKernels == Positions(cpass, LAMBDA d : d.pipeline[2] \in {"self_update", "field_update"})

Corrections == Positions(cpass, LAMBDA d : d.pipeline[2] = "field_update")

MainKernels == Positions(cpass, LAMBDA d : d.pipeline[1] = "fdtd")

Grid == Box(<<0, 0, 0>>, grid_dimension)

Interior == Box(<<pml.cells, pml.cells, pml.cells>>, pml.simulation_dimension)

Halo == Grid \ Interior

\* the cells of the region a CPML dispatch works on
RegionBox(d) == Box(d.push, PsiTextureExtent(d.pipeline[1], pml))

\* the invocations a dispatch launches, as cells relative to its base
Invocations(base, d, size) ==
    Box(base, <<d.workgroups[1] * size[1], d.workgroups[2] * size[2],
                d.workgroups[3] * size[3]>>)

MainCells ==
    UNION {Invocations(<<0, 0, 0>>, cpass[i], workgroup_dispatch) \cap Grid
           : i \in MainKernels}

CorrectionCells == UNION {RegionBox(cpass[i]) : i \in Corrections}

\* C7: under PML every half-step dispatches, for each of the 26 regions,
\* the psi-update once and the field-correction once, the psi-update first,
\* both with the same offset and with that region's own psi bind groups;
\* there is no other CPML dispatch in the pass.
C7_RegionKernelsOnceInOrder ==
    UnderPML =>
        \E f \in Fields :
            /\ \A i \in 1..Len(cpass) : cpass[i].pipeline[3] = f
            /\ Cardinality(Regions) = 26
            /\ Cardinality(PMLKernels) = 52
            /\ \A r \in Regions :
                  LET psi == {i \in 1..Len(cpass) :
                                 /\ cpass[i].pipeline = <<r[1], "self_update", f>>
                                 /\ cpass[i].bind0 =
                                      <<"psi_self_update_bind_group", r[1], r[2], f>>}
                      cor == {i \in 1..Len(cpass) :
                                 /\ cpass[i].pipeline = <<r[1], "field_update", f>>
                                 /\ cpass[i].bind1 =
                                      <<"psi_field_update_bind_group", r[1], r[2], f>>}
                  IN  /\ Cardinality(psi) = 1
                      /\ Cardinality(cor) = 1
                      /\ \A i \in psi, j \in cor :
                            i < j /\ cpass[i].push = cpass[j].push

C7_Witness ==
    /\ UnderPML
    /\ Len(cpass) = 53
    /\ cpass[1].pipeline = <<"corner", "self_update", "magnetic">>
    /\ pml.cells = 2

\* C8 as claimed: under PML the main field-update kernel of a half-step is
\* dispatched before the CPML field-correction kernels of that half-step.
C8_MainBeforeCorrections ==
    UnderPML => \A i \in MainKernels, j \in Corrections : i < j

\* C8 as amended: every half-step dispatches exactly one main field-update
\* kernel, as the last dispatch of its compute pass; under PML the 52 CPML
\* kernels (psi-updates and field-corrections) all precede it.
C8_CorrectionsBeforeMain ==
    cpass # <<>> =>
        /\ MainKernels = {Len(cpass)}
        /\ boundary.type = "PML" =>
              /\ Cardinality(Corrections) = 26
              /\ PMLKernels = 1..(Len(cpass) - 1)
              /\ \A i \in MainKernels, j \in PMLKernels : j < i

C8_Witness ==
    /\ UnderPML
    /\ Len(cpass) = 53
    /\ cpass[53].pipeline = <<"fdtd", "update", "electric">>
    /\ cpass[52].pipeline = <<"edge_z", "field_update", "electric">>

\* C9 as claimed: the cells covered by the main field-update dispatch and
\* the cells covered by the CPML field-correction dispatches are disjoint.
C9_DisjointCoverage ==
    UnderPML => MainCells \cap CorrectionCells = {}

\* C9 as amended: the main field-update dispatch covers every cell of the
\* grid, halo included, so every cell of a CPML field-correction region is
\* also covered by the main dispatch; the CPML regions lie inside their own
\* dispatch, cover the whole halo and contain no interior cell.
C9_MainCoversCorrections ==
    UnderPML =>
        /\ MainCells = Grid
        /\ CorrectionCells # {}
        /\ CorrectionCells \subseteq MainCells
        /\ CorrectionCells = Halo
        /\ CorrectionCells \cap Interior = {}
        /\ \A i \in Corrections :
              RegionBox(cpass[i]) \subseteq
                  Invocations(cpass[i].push, cpass[i],
                              <<PMLWorkgroup, PMLWorkgroup, PMLWorkgroup>>)

C9_Witness ==
    /\ UnderPML
    /\ workgroup_dispatch = <<2, 2, 2>>
    /\ grid_dimension = <<3, 4, 3>>

\* C10: for every thickness C and interior extent S explored, the 26 boxes
\* [offset, offset + psi texture extent) of a half-step are pairwise
\* disjoint, lie inside the grid, miss the interior and together are the
\* halo; the 8 corner offsets are the 8 distinct octant origins.
C10_RegionsPartitionHalo ==
    UnderPML =>
        \A phase \in {"self_update", "field_update"} :
            LET ks == Positions(cpass, LAMBDA d : d.pipeline[2] = phase)
                corners == {cpass[i].push : i \in {k \in ks : cpass[k].pipeline[1] = "corner"}}
                far == [a \in 1..3 |-> pml.cells + pml.simulation_dimension[a]]
            IN  /\ Cardinality(ks) = 26
                /\ \A i, j \in ks :
                      i # j => RegionBox(cpass[i]) \cap RegionBox(cpass[j]) = {}
                /\ \A i \in ks : RegionBox(cpass[i]) \subseteq Grid
                /\ \A i \in ks : RegionBox(cpass[i]) \cap Interior = {}
                /\ UNION {RegionBox(cpass[i]) : i \in ks} = Halo
                /\ corners = {0, far[1]} \X {0, far[2]} \X {0, far[3]}
                /\ Cardinality(corners) = 8

C10_Witness ==
    /\ UnderPML
    /\ pml.cells = 2
    /\ pml.simulation_dimension = <<2, 1, 2>>
    /\ grid_dimension = <<6, 5, 6>>

(***************************************************************************)
(* Properties of initialization, checked under SpecSetup.                  *)
(***************************************************************************)
SimulationExtent == [a \in 1..3 |-> StepCeil(domain[a], spatial_step)]

\* C11: a constructed FDTD owns a PMLBoundary if and only if its boundary is
\* PML.  Under PEC or PMC the halo extent is 0 and the grid is the interior
\* extent, and a half-step records exactly one dispatch, the main kernel,
\* whose use_pmc push constant is 1 exactly for PMC.  Under PML the
\* PMLBoundary is present in every state in which a half-step can be
\* called, so no half-step fails on a missing one, and a pass holds the 52
\* CPML dispatches as well.
C11_PmlIffBoundaryPml ==
    pc = "run" =>
        /\ pml.some <=> boundary.type = "PML"
        /\ HalfStepCanRun
        /\ boundary.type \in {"PEC", "PMC"} =>
              /\ get_extra_grid_extent(boundary) = 0
              /\ grid_dimension = SimulationExtent
              /\ cpass # <<>> =>
                    /\ Len(cpass) = 1
                    /\ cpass[1].pipeline[1] = "fdtd"
                    /\ cpass[1].push[4] = 1 <=> boundary.type = "PMC"
                    /\ cpass[1].push[4] \in {0, 1}
        /\ boundary.type = "PML" =>
              /\ pml.cells = boundary.cells
              /\ cpass # <<>> =>
                    /\ Len(cpass) = 53
                    /\ cpass[53].push[4] = 0

C11_Witness ==
    /\ pc = "run"
    /\ boundary.type = "PMC"
    /\ ~pml.some
    /\ Len(cpass) = 1
    /\ cpass[1].push = <<2, 1, 2, 1>>

\* C12: after FDTD::new the three electric and three magnetic field
\* textures and the electric and magnetic constants maps of the Importer all
\* have the extent Gx x Gy x Gz with G = ceil((max - min) / dx) + 2C per
\* axis (C = 0 under PEC and PMC), and get_dimension() returns that G.
C12_TexturesShareGrid ==
    pc = "run" =>
        LET G == [a \in 1..3 |->
                     CeilDiv(domain[a][2] - domain[a][1], spatial_step)
                     + 2 * boundary.cells]
        IN  /\ Len(field_texture_size) = 6
            /\ \A i \in 1..6 : field_texture_size[i] = G
            /\ Len(constants_map_size) = 2
            /\ \A i \in 1..2 : constants_map_size[i] = G
            /\ FDTD_get_dimension = G

C12_Witness ==
    /\ pc = "run"
    /\ boundary = PML(2)
    /\ spatial_step = 2
    /\ domain = <<<<-1, 0>>, <<0, 3>>, <<1, 5>>>>
    /\ constants_map_size = <<<<5, 6, 6>>, <<5, 6, 6>>>>
    /\ field_texture_size[6] = <<5, 6, 6>>

\* C13: if some axis of the configured domain has max <= min, main returns
\* an error whose message names such an axis (the first one in x, y, z
\* order), nothing of the simulation is constructed and no half-step is
\* recorded; if max > min on all three axes the checks pass without error.
C13_DomainRejected ==
    LET bad == {a \in 1..3 : domain[a][2] <= domain[a][1]}
    IN  pc # "load" =>
            /\ bad # {} =>
                  /\ pc = "error"
                  /\ \E a \in bad :
                        /\ init_error = DomainError(a)
                        /\ \A b \in bad : a <= b
                  /\ grid_dimension = <<0, 0, 0>>
                  /\ ~pml.some
                  /\ field_texture_size = <<>>
                  /\ constants_map_size = <<>>
                  /\ importer = NoImporter
                  /\ cpass = <<>>
                  /\ step_counter = 0
            /\ bad = {} =>
                  /\ pc \in {"checked", "run", "panic"}
                  /\ init_error = ""

C13_Witness ==
    /\ pc = "error"
    /\ domain = <<<<0, 1>>, <<0, 0>>, <<0, -1>>>>
    /\ init_error = "RHS of domain[1] is less or equal than LHS!"

\* the part of the span of axis a beyond whole cells, (step - floor(step)) * dx
SpanRemainder(a) ==
    LET span == domain[a][2] - domain[a][1]
    IN  span - spatial_step * (span \div spatial_step)

\* C14 as claimed: on each axis the shift of FDTD::new is
\* -(min + (step - floor(step)) * dx / 2 - C * dx / 2), C the PML thickness
\* in cells, and the Importer holds the same shift.  (Shifts are in halves
\* of the length unit, so both sides are doubled.)
C14_ShiftHalfThickness ==
    pc = "run" =>
        /\ \A a \in 1..3 :
              shift_vector[a] =
                  -(2 * domain[a][1] + SpanRemainder(a)
                    - boundary.cells * spatial_step)
        /\ importer.shift_vector = shift_vector

\* C14 as amended: on each axis the shift of FDTD::new is
\* -(min + (step - floor(step)) * dx / 2 - C * dx), the halo term being the
\* extra grid extent 2C times dx / 2, and the Importer holds the same shift.
C14_ShiftFullThickness ==
    pc = "run" =>
        /\ \A a \in 1..3 :
              shift_vector[a] =
                  -(2 * domain[a][1] + SpanRemainder(a)
                    - 2 * boundary.cells * spatial_step)
        /\ importer.shift_vector = shift_vector

C14_Witness ==
    /\ pc = "run"
    /\ boundary = PML(1)
    /\ spatial_step = 2
    /\ domain = <<<<-1, 2>>, <<0, 4>>, <<1, 2>>>>
    /\ shift_vector = <<5, 4, 1>>
    /\ importer.shift_vector = <<5, 4, 1>>

(***************************************************************************)
(* Properties of the rasterizer, checked under SpecRaster.                 *)
(***************************************************************************)
\* the hits recorded in flag map f in the column of interior cell c at
\* heights 0..z, z the height of c
RecordedHits(f, c) == {k \in 0..c[3] : f[<<c[1], c[2], k>>] = 1}

\* C15: loading a mesh overwrites the electric and magnetic coefficients of
\* an interior cell with those of the mesh material if and only if the
\* number of hits recorded in the cell's column at heights 0..z is odd;
\* cells of even parity keep the coefficients they had.
C15_OddParityOverwritten ==
    [][loaded' = loaded + 1 =>
          LET material == FDTDConstants_from_material(models[loaded'].constants)
          IN  \A c \in InteriorCells(importer) :
                 LET g == ToGrid(c, importer)
                     odd == Cardinality(RecordedHits(flag_map', c)) % 2 = 1
                 IN  /\ electric_constants'[g] =
                            IF odd THEN material.ec ELSE electric_constants[g]
                     /\ magnetic_constants'[g] =
                            IF odd THEN material.hc ELSE magnetic_constants[g]]_vars

C15_Witness ==
    /\ loaded = 1
    /\ Len(models) = 1
    /\ \E c \in InteriorCells(importer) :
          /\ Cardinality(RecordedHits(flag_map, c)) = 1
          /\ electric_constants[ToGrid(c, importer)] =
                 FDTDConstants_from_material(models[1].constants).ec
    /\ \E c \in InteriorCells(importer) :
          /\ Cardinality(RecordedHits(flag_map, c)) = 2
          /\ electric_constants[ToGrid(c, importer)] =
                 FDTDConstants_from_material(Background).ec

\* the constants a cell holds in the importer and, once they are built, in
\* the maps of into_constants_map
HoldsAt(g, material) ==
    /\ electric_constants[g] = FDTDConstants_from_material(material).ec
    /\ magnetic_constants[g] = FDTDConstants_from_material(material).hc
    /\ raster_pc = "mapped" =>
          /\ ec_map[g] = FDTDConstants_from_material(material).ec
          /\ hc_map[g] = FDTDConstants_from_material(material).hc

\* grid cell g lies strictly outside the axis-aligned bounding box of a mesh
OutsideBoundingBox(g, triangles) ==
    \E a \in 1..3 :
        \/ \A i \in 1..Len(triangles) : \A k \in 1..3 : g[a] < triangles[i][k][a]
        \/ \A i \in 1..Len(triangles) : \A k \in 1..3 : g[a] > triangles[i][k][a]

\* C16 as claimed: every grid cell strictly outside the bounding box of every
\* mesh holds the background coefficients in both maps.
C16_OutsideBoxesBackground ==
    loaded = Len(models) =>
        \A g \in GridCells(importer) :
            (\A i \in 1..Len(models) : OutsideBoundingBox(g, models[i].triangles))
                => HoldsAt(g, Background)

\* interior cell c is classified inside by the mesh: odd parity of its hits
ClassifiedInside(c, triangles) ==
    SweepAccumulator(Voxelize(triangles, importer), importer)[c] % 2 = 1

\* C17: a cell that several meshes of the list classify as inside holds the
\* coefficients of the last of them in the list.
C17_LaterMeshWins ==
    loaded = Len(models) =>
        \A c \in InteriorCells(importer) :
            LET inside == {i \in 1..Len(models) :
                              ClassifiedInside(c, models[i].triangles)}
            IN  inside # {} =>
                    \E i \in inside :
                        /\ \A j \in inside : j <= i
                        /\ HoldsAt(ToGrid(c, importer), models[i].constants)

C17_Witness ==
    /\ raster_pc = "mapped"
    /\ Len(models) = 2
    /\ models[1].constants # models[2].constants
    /\ \E c \in InteriorCells(importer) :
          /\ ClassifiedInside(c, models[1].triangles)
          /\ ClassifiedInside(c, models[2].triangles)
          /\ ec_map[ToGrid(c, importer)] =
                 FDTDConstants_from_material(models[2].constants).ec
          /\ ec_map[ToGrid(c, importer)] #
                 FDTDConstants_from_material(models[1].constants).ec

\* grid index g with index at on axis a
OnAxis(g, a, at) == [g EXCEPT ![a] = at]

\* C19: with PML thickness C >= 1 the maps of into_constants_map hold, at
\* every halo cell of a face region (tangential indices in C..G-C-1), the
\* value of the interior cell next to the face with the same tangential
\* indices (index C on the near side, G-C-1 on the far side of the axis),
\* and hold at every interior cell what the importer held.
C19_FacesReplicated ==
    (raster_pc = "mapped" /\ boundary.type = "PML" /\ boundary.cells >= 1) =>
        LET C == boundary.cells
            G == importer.grid_dimension
            inner(g, a) == \A b \in (1..3) \ {a} : g[b] >= C /\ g[b] < G[b] - C
        IN  \A g \in GridCells(importer) :
               /\ \A a \in 1..3 :
                     /\ (g[a] < C /\ inner(g, a)) =>
                           /\ ec_map[g] = ec_map[OnAxis(g, a, C)]
                           /\ hc_map[g] = hc_map[OnAxis(g, a, C)]
                     /\ (g[a] >= G[a] - C /\ inner(g, a)) =>
                           /\ ec_map[g] = ec_map[OnAxis(g, a, G[a] - C - 1)]
                           /\ hc_map[g] = hc_map[OnAxis(g, a, G[a] - C - 1)]
               /\ (\A a \in 1..3 : g[a] >= C /\ g[a] < G[a] - C) =>
                     /\ ec_map[g] = electric_constants[g]
                     /\ hc_map[g] = magnetic_constants[g]

\* a box on the y-near, x-far, z-near and z-far faces, not symmetric in x and
\* y: its material is in the halo of those faces and nowhere else
C19_Witness ==
    /\ raster_pc = "mapped"
    /\ boundary = PML(2)
    /\ Len(models) = 1
    /\ models[1].constants = ModelMaterial(3)
    /\ ec_map[<<4, 2, 3>>] = 9
    /\ ec_map[<<6, 2, 3>>] = 9
    /\ ec_map[<<3, 0, 2>>] = 9
    /\ ec_map[<<4, 2, 0>>] = 9
    /\ ec_map[<<2, 4, 0>>] = 1
    /\ ec_map[<<4, 3, 7>>] = 9
    /\ ec_map[<<0, 2, 2>>] = 1
    /\ ec_map[<<3, 6, 2>>] = 1

(***************************************************************************)
(* Properties of the parallel rasterizer, checked under SpecRasterPar.     *)
(***************************************************************************)
\* the constants arrays after the first n models, loaded one task at a time
\* in program order
RECURSIVE SequentialConstants(_)
SequentialConstants(n) ==
    IF n = 0
    THEN [ec |-> [g \in GridCells(importer) |->
                     FDTDConstants_from_material(Background).ec],
          hc |-> [g \in GridCells(importer) |->
                     FDTDConstants_from_material(Background).hc]]
    ELSE LET before == SequentialConstants(n - 1)
             constants == FDTDConstants_from_material(models[n].constants)
             acc == SweepAccumulator(Voxelize(models[n].triangles, importer),
                                     importer)
         IN  [ec |-> SweepConstants(before.ec, acc, constants.ec, importer),
              hc |-> SweepConstants(before.hc, acc, constants.hc, importer)]

\* some started task can take its next step
SomeTaskCanStep ==
    \E t \in tasks :
        \/ /\ raster_pc = "voxelize"
           /\ \A c \in VoxelWrites(models[loaded + 1].triangles[t[1]], t[2], t[3],
                                   importer) :
                 <<"flag_map", c>> \notin DOMAIN locks
        \/ /\ raster_pc = "sweep"
           /\ <<"accumulator", t>> \notin DOMAIN locks
           /\ <<"flag_map", t>> \notin DOMAIN locks
           /\ t[3] > 0 =>
                 <<"accumulator", <<t[1], t[2], t[3] - 1>>>> \notin DOMAIN locks
        \/ /\ raster_pc = "sweep"
           /\ <<"accumulator", t>> \in DOMAIN locks
           /\ locks[<<"accumulator", t>>] = t
           /\ <<"electric_constants", ToGrid(t, importer)>> \notin DOMAIN locks
           /\ <<"magnetic_constants", ToGrid(t, importer)>> \notin DOMAIN locks

\* C18: whatever the interleaving of the flag writes and of the sweep tasks,
\* the flag grid is the one of the mesh once voxelization ends (no lost
\* flag), a started task can always step (no deadlock on the mutexes), the
\* layers below the one being swept are final and only tasks of that layer
\* run (no early read of layer z-1), and after each mesh and in the final
\* maps the coefficients are those of the sequential run.
C18_RasterDeterministic ==
    /\ (raster_pc = "sweep" \/ (raster_pc = "voxelize" /\ tasks = {})) =>
          flag_map = Voxelize(models[loaded + 1].triangles, importer)
    /\ tasks # {} => SomeTaskCanStep
    /\ raster_pc = "sweep" =>
          /\ \A t \in tasks : t[3] = sweep_z
          /\ \A c \in InteriorCells(importer) :
                (c[3] < sweep_z \/ (c[3] = sweep_z /\ tasks = {})) =>
                    accumulator[c] = SweepAccumulator(flag_map, importer)[c]
    /\ raster_pc \in {"idle", "mapped"} =>
          /\ electric_constants = SequentialConstants(loaded).ec
          /\ magnetic_constants = SequentialConstants(loaded).hc
    /\ raster_pc = "mapped" =>
          /\ ec_map = ConstantsMap(SequentialConstants(loaded).ec, importer).map
          /\ hc_map = ConstantsMap(SequentialConstants(loaded).hc, importer).map

\* the second mesh of a list is being swept above the bottom layer and two
\* columns hold their accumulator mutex at the same time
C18_Witness ==
    /\ raster_pc = "sweep"
    /\ loaded = 1
    /\ sweep_z = 1
    /\ Cardinality(DOMAIN locks) >= 2
    /\ \E c \in InteriorCells(importer) : flag_map[c] = 1 /\ c[3] = 1

(***************************************************************************)
(* Properties of the fields, checked under SpecFields.                     *)
(***************************************************************************)
TexturesZero(textures) ==
    \A a \in 1..3 : \A c \in DOMAIN textures[a] : textures[a][c] = 0

\* C20: on a grid with a PEC or PMC boundary and no sources configured, the
\* six field textures, zero at creation, are zero after every tick.
C20_ZeroStaysZero ==
    (boundary.type \in {"PEC", "PMC"} /\ cfg_sources = <<>>) =>
        /\ TexturesZero(electric_field_texture)
        /\ TexturesZero(magnetic_field_texture)

\* both half-steps have run MaxStep times over a grid with interior cells
C20_Witness ==
    /\ boundary = PMC
    /\ cfg_sources = <<>>
    /\ step_counter = MaxStep
    /\ grid_dimension = <<3, 3, 3>>
    /\ Len(encoder) = 2
    /\ TexturesZero(electric_field_texture)
    /\ TexturesZero(magnetic_field_texture)

(***************************************************************************)
(* Further properties of the half-steps, checked under SpecHalfStep.       *)
(***************************************************************************)
\* C24 as claimed: every CPML kernel dispatch (psi update and field
\* correction, electric and magnetic) has, on each axis, ceil(region extent /
\* configured workgroup size) workgroups, the configured size being the one
\* of the main dispatch.
C24_ConfiguredWorkgroups ==
    UnderPML =>
        \A i \in PMLKernels :
            \A a \in 1..3 :
                cpass[i].workgroups[a] =
                    CeilDiv(PsiTextureExtent(cpass[i].pipeline[1], pml)[a],
                            workgroup_dispatch[a])

\* C24 as amended: every CPML kernel dispatch has, on each axis, ceil(region
\* extent / 8) workgroups, whatever the configured workgroup size; only the
\* main dispatch divides by the configured size.
C24_FixedWorkgroups ==
    UnderPML =>
        /\ \A i \in PMLKernels :
              \A a \in 1..3 :
                  cpass[i].workgroups[a] =
                      CeilDiv(PsiTextureExtent(cpass[i].pipeline[1], pml)[a], 8)
        /\ \A i \in MainKernels :
              \A a \in 1..3 :
                  cpass[i].workgroups[a] =
                      CeilDiv(grid_dimension[a], workgroup_dispatch[a])

C24_Witness ==
    /\ UnderPML
    /\ pml.simulation_dimension = <<9, 2, 17>>
    /\ workgroup_dispatch = <<4, 2, 1>>
    /\ \E i \in PMLKernels :
          /\ cpass[i].pipeline[1] = "surface_y"
          /\ cpass[i].workgroups = <<2, 1, 3>>
    /\ \E i \in MainKernels : cpass[i].workgroups = <<3, 2, 19>>

(***************************************************************************)
(* Properties of the scheduled exports, checked under SpecExport.          *)
(***************************************************************************)
EntryIds(list) == {list[i].id : i \in DOMAIN list}

\* C21: an export whose buffer map-read failed has written no file, has
\* been reported, and its entry has left the export schedule.
C21_FailedExportReported ==
    \A id \in map_errors :
        /\ id \notin EntryIds(files)
        /\ id \in EntryIds(stderr)
        /\ id \notin EntryIds(exports)

\* C23: every copy buffer of a 3D export has rows of the least multiple of
\* 256 bytes that holds 4*Gx bytes and a size of padded_row*Gy*Gz bytes,
\* no 32-bit overflow changing it; every file written holds Gy*Gz rows of
\* 4*Gx bytes under a Texture3D R32_Float header of dimensions (Gx,Gy,Gz).
C23_ExportSizes ==
    LET g == grid_dimension
    IN  /\ \A i \in DOMAIN copy_buffers :
              LET b == copy_buffers[i]
              IN  /\ b.bytes_per_row % 256 = 0
                  /\ b.bytes_per_row >= 4 * g[1]
                  /\ b.bytes_per_row - 256 < 4 * g[1]
                  /\ b.alignments = (b.bytes_per_row \div 256) * g[2] * g[3]
        /\ \A i \in DOMAIN files :
              LET f == files[i]
              IN  /\ f.row_bytes = 4 * g[1]
                  /\ f.rows = g[2] * g[3]
                  /\ <<f.width, f.height, f.depth>> = g
                  /\ f.format = "R32_Float"
                  /\ f.resource = "Texture3D"

(***************************************************************************)
(* Properties of the headless start, checked under SpecSetup.              *)
(***************************************************************************)
\* C22: a start with --no-visual is rejected only when pause_at is empty;
\* with a non-empty pause_at it does not fail: it runs its ticks and ends
\* normally once the pause schedule and the export schedule are empty.
C22_HeadlessRuns ==
    /\ (no_visual /\ pc = "panic") => (cfg_pause_at = <<>>)
    /\ (no_visual /\ pc = "panic" /\ cfg_pause_at = <<>>)
           => (panic_message = HeadlessAssertion)

\* C30: for a boundary of type PML, whatever its cells (0 included),
\* FDTD::new does not fail: the importer hands it the decay maps and the
\* constructed FDTD holds a PML subsystem.
C30_PmlConstructs ==
    (~no_visual /\ boundary.type = "PML")
        => /\ pc # "panic"
           /\ (pc = "run" => pml # NoPML)

(***************************************************************************)
(* Properties of the volume sources, checked under SpecSource.             *)
(***************************************************************************)
\* the source the i-th dispatch of the pass injects
SourceOf(i) ==
    IF cpass[i].pipeline[3] = "magnetic" THEN magnetic_sources[i]
    ELSE electric_sources[i]

BoxSize(i) == SubSeq(cpass[i].push, 1, 3)

BoxOrigin(i) == SubSeq(cpass[i].push, 4, 6)

\* ceil((position - min - size / 2) / dx) along axis a, not yet a cell index
LowerEdgeCell(src, a) ==
    CeilDiv(src.position[a] - 2 * domain[a][1] - src.size[a], 2 * spatial_step)

\* the workgroups of the dispatch reach every cell of the box
BoxCovered(i) ==
    \A a \in 1..3 :
        /\ cpass[i].workgroups[a] = CeilDiv(BoxSize(i)[a], workgroup_dispatch[a])
        /\ \A k \in 0..(BoxSize(i)[a] - 1) :
              k \div workgroup_dispatch[a] < cpass[i].workgroups[a]

\* C26 as stated: the box of every volume source has, on each axis, the
\* size max(1, ceil(size[a]/dx)) of that axis's own size, the origin
\* ceil((position[a] - min[a] - size[a]/2)/dx) + C, and a dispatch of
\* ceil(box size / workgroup size) workgroups that covers the box.
C26_BoxFromOwnAxis ==
    \A i \in DOMAIN cpass :
        /\ \A a \in 1..3 :
              /\ BoxSize(i)[a] = Max2(1, CeilDiv(SourceOf(i).size[a], spatial_step))
              /\ BoxOrigin(i)[a] = LowerEdgeCell(SourceOf(i), a) + boundary.cells
        /\ BoxCovered(i)

\* C26: as above, the origin being max(0, ceil(...)) + C: a lower edge left
\* of the domain minimum is moved to the first interior cell.
C26_BoxFromOwnAxisClamped ==
    \A i \in DOMAIN cpass :
        /\ \A a \in 1..3 :
              /\ BoxSize(i)[a] = Max2(1, CeilDiv(SourceOf(i).size[a], spatial_step))
              /\ BoxOrigin(i)[a] =
                     Max2(0, LowerEdgeCell(SourceOf(i), a)) + boundary.cells
        /\ BoxCovered(i)

C26_Witness ==
    /\ cpass # <<>>
    /\ cpass[1].pipeline = <<"fdtd", "excite_field_volume", "magnetic">>
    /\ magnetic_sources[1].position = <<-1, 2, 3>>
    /\ magnetic_sources[1].size = <<3, 2, 1>>
    /\ spatial_step = 2
    /\ boundary = PML(1)
    /\ cpass[1].push = <<2, 1, 1, 1, 1, 2>>
    /\ cpass[1].workgroups = <<2, 1, 1>>

\* the physical box [position - size/2, position + size/2] of the source
\* lies in the domain on every axis
SourceInDomain(src) ==
    \A a \in 1..3 :
        /\ 2 * domain[a][1] <= src.position[a] - src.size[a]
        /\ src.position[a] + src.size[a] <= 2 * domain[a][2]

\* C29: the cell box of a volume source whose physical box lies in the
\* domain lies in the interior [C, C + S) on every axis.
C29_BoxInsideInterior ==
    \A i \in DOMAIN cpass :
        SourceInDomain(SourceOf(i))
            => \A a \in 1..3 :
                  /\ boundary.cells <= BoxOrigin(i)[a]
                  /\ BoxOrigin(i)[a] + BoxSize(i)[a]
                         <= grid_dimension[a] - boundary.cells

(***************************************************************************)
(* Properties of the slice view, checked under SpecView.                   *)
(***************************************************************************)
\* C27: in every state of the view, the one right after construction
\* included, the normalized slice position lies in [0, 1]; set_slice_mode
\* and set_field_view_mode change neither the slice position nor the
\* scaling factor.
C27_SlicePositionNormalized ==
    /\ 0 <= slice_position
    /\ slice_position <= ViewDen(grid_dimension, spatial_step)

(***************************************************************************)
(* Properties of the bind groups, checked under SpecBind.                  *)
(***************************************************************************)
\* the bind groups a dispatch has set, by name
GroupsOf(d) == {d.bind0, d.bind1} \ {NoBind}

\* the entries the kernel of dispatch d can write
Writable(d) ==
    UNION {{<<name, BindGroup(name)[k].resource>> :
               k \in {j \in DOMAIN BindGroup(name) :
                         BindGroup(name)[j].access = ReadWrite}}
           : name \in GroupsOf(d)}

Bound(d) ==
    UNION {{BindGroup(name)[k] : k \in DOMAIN BindGroup(name)}
           : name \in GroupsOf(d)}

\* C28: a kernel of the electric half-step (main update, CPML psi-update
\* and field correction, injection) can write no magnetic field texture
\* and a kernel of the magnetic half-step no electric one; constants maps
\* and decay maps are read-only wherever they are bound; a psi texture is
\* writable only through the psi-update bind group of its own region.
C28_WriteAccess ==
    \A i \in DOMAIN cpass :
        LET d == cpass[i]
            half == d.pipeline[3]
        IN  /\ \A w \in Writable(d) :
                  LET name == w[1]
                      tex == w[2]
                  IN  /\ tex[1] \in {"field", "psi"}
                      /\ tex[1] = "field" => tex[2] = half
                      /\ tex[1] = "psi" =>
                             name = <<"psi_self_update_bind_group",
                                      tex[2], tex[3], tex[4]>>
            /\ \A e \in Bound(d) :
                  e.resource[1] \in {"constants_map", "psi_constants"}
                      => e.access = ReadOnly

C28_Witness ==
    /\ boundary.type = "PML"
    /\ \E i \in DOMAIN cpass :
          /\ cpass[i].bind0 = <<"psi_self_update_bind_group", "surface_y", 1,
                                "electric">>
          /\ [resource |-> <<"psi_constants", "electric", 3>>,
              access |-> ReadOnly] \in Bound(cpass[i])
          /\ [resource |-> <<"field", "magnetic", 1>>, access |-> ReadOnly]
                 \in Bound(cpass[i])
          /\ <<cpass[i].bind0, <<"psi", "surface_y", 1, "electric", 2>>>>
                 \in Writable(cpass[i])
    /\ \E i \in DOMAIN cpass :
          /\ cpass[i].pipeline = <<"fdtd", "update", "electric">>
          /\ Writable(cpass[i]) =
                 {<<cpass[i].bind0, <<"field", "electric", k>>>> : k \in 1..3}

(***************************************************************************)
(* Properties of the decay textures, checked under SpecRaster.             *)
(***************************************************************************)
\* faces in the order of the decay textures: x near, x far, y near, y far,
\* z near, z far; the two tangential axes of a face in ascending order
FaceTangents(f) ==
    IF f <= 2 THEN <<2, 3>> ELSE IF f <= 4 THEN <<1, 3>> ELSE <<1, 2>>

\* the interior cell next to face f with tangential interior coordinates
\* (u, v), for the halo thickness C
FaceCell(f, u, v) ==
    LET C == HalfExtent(importer)
        G == importer.grid_dimension
        a == (f + 1) \div 2
        t == FaceTangents(f)
    IN  [b \in 1..3 |->
            IF b = a THEN (IF f % 2 = 1 THEN C ELSE G[a] - C - 1)
            ELSE IF b = t[1] THEN C + u
            ELSE C + v]

\* C25: with a PML halo each of the six decay textures, electric and
\* magnetic, has the width and the height of the two tangential interior
\* extents of its face, and its texel (u, v) in upload order holds the decay
\* value of the interior cell next to the face with tangential coordinates
\* (u, v), on the X, Y and Z faces alike.
C25_DecayTexels ==
    (raster_pc = "mapped" /\ importer.extra_extent > 0) =>
        \A f \in 1..6 :
            LET t == FaceTangents(f)
                sim == SimulationDimension(importer)
                e == pml_electric_views[f]
                h == pml_magnetic_views[f]
            IN  /\ e.width = sim[t[1]] /\ e.height = sim[t[2]]
                /\ h.width = sim[t[1]] /\ h.height = sim[t[2]]
                /\ \A u \in 0..(sim[t[1]] - 1), v \in 0..(sim[t[2]] - 1) :
                      /\ e.texel[<<u, v>>] =
                             ElectricDecay(ec_map[FaceCell(f, u, v)])
                      /\ h.texel[<<u, v>>] =
                             MagneticDecay(hc_map[FaceCell(f, u, v)],
                                           ec_map[FaceCell(f, u, v)])

\* what the upload does hold: the extents always, the texels of the two Z
\* faces, and on an X or Y face of extents (n0, n1) the texel (u, v) holds
\* the value of the cell whose row-major index u' * n1 + v' is v * n0 + u
DecayTexelsAsUploaded ==
    (raster_pc = "mapped" /\ importer.extra_extent > 0) =>
        \A f \in 1..6 :
            LET t == FaceTangents(f)
                sim == SimulationDimension(importer)
                n0 == sim[t[1]]
                n1 == sim[t[2]]
                e == pml_electric_views[f]
            IN  /\ e.width = n0 /\ e.height = n1
                /\ \A u \in 0..(n0 - 1), v \in 0..(n1 - 1) :
                      LET m == v * n0 + u
                      IN  e.texel[<<u, v>>] =
                             ElectricDecay(ec_map[
                                 IF f >= 5 THEN FaceCell(f, u, v)
                                 ELSE FaceCell(f, m \div n1, m % n1)])

=============================================================================
